---- MODULE Spec2Model ----
(***************************************************************************)
(* The Kev interpreter: lexer, Pratt parser, tree-walking evaluator and    *)
(* the two drivers (REPL and file runner).                                 *)
(*                                                                         *)
(* Source text is a string; a byte of it is a one-character string.        *)
(* Go's nil is the value Nil of its kind, a Go panic is recorded in the    *)
(* state that is threaded through the code and ends the process.           *)
(***************************************************************************)
EXTENDS Integers, Sequences, FiniteSets, TLC

VARIABLES
    pc,         \* where the process is: "main", "prompt" (RunPrompt's Scan), "exit"
    osArgs,     \* os.Args[1:]
    stdin,      \* the lines the REPL has read from its reader so far
    replEnv,    \* the id of RunPrompt's env (NilEnv before it exists)
    heap,       \* every Environment allocated so far, by id
    out,        \* what was written to the REPL's writer / os.Stdout
    printed,    \* what the builtin print wrote (println)
    last,       \* what the last input did: its text, error log, value, observations
    files,      \* the files of the working directory: name to contents
    crashed,    \* the panic that ended the process, or NoPanic
    exitCode,   \* the process's exit code once it has one (2 after a panic), else -1
    unit        \* one package used on its own: a lexer and the tokens it gave, a
                \* parser and its program, or an operator with its operands

vars == <<pc, osArgs, stdin, replEnv, heap, out, printed, last, files,
          crashed, exitCode, unit>>

(***************************************************************************)
(* token                                                                   *)
(***************************************************************************)
token ==
    [ILLEGAL   |-> "ILLEGAL",
     EOF       |-> "EOF",
     IDENT     |-> "IDENT",
     INT       |-> "INT",
     ASSIGN    |-> "=",
     COMMA     |-> ",",
     SEMICOLON |-> ";",
     LPAREN    |-> "(",
     RPAREN    |-> ")",
     LBRACE    |-> "{",
     RBRACE    |-> "}",
     FUNCTION  |-> "FUNCTION",
     VAR       |-> "VAR",
     IF_T      |-> "IF",
     ELSE_T    |-> "ELSE",
     RETURN    |-> "RETURN",
     PLUS      |-> "+",
     MINUS     |-> "-",
     BANG      |-> "!",
     ASTERISK  |-> "*",
     SLASH     |-> "/",
     LT        |-> "<",
     GT        |-> ">",
     TRUE_T    |-> "TRUE",
     FALSE_T   |-> "FALSE",
     EQ        |-> "==",
     NE        |-> "!="]
\* Kinds the parser names (token.STRING, token.LBRACKET, token.RBRACKET,
\* token.COLON) whose declarations are not among the sources.
STRING_T  == "STRING"
LBRACKET  == "["
RBRACKET  == "]"
COLON     == ":"

Token(type, literal) == [Type |-> type, Literal |-> literal]

keywords == [func |-> token.FUNCTION, var |-> token.VAR, if |-> token.IF_T, else |-> token.ELSE_T,
             return |-> token.RETURN, true |-> token.TRUE_T, false |-> token.FALSE_T]

\* LookupIdent without the keywords table.
LookupIdentNever(ident) == token.IDENT

LookupIdent(ident) ==
    IF ident \in DOMAIN keywords THEN keywords[ident] ELSE token.IDENT

(***************************************************************************)
(* lexer                                                                   *)
(***************************************************************************)
\* The byte 0, which readChar puts in ch at the end of the input.  In a
\* source text the form feed stands for it.
NUL == "\f"

isLetter(ch) ==
    \/ ch \in {"a","b","c","d","e","f","g","h","i","j","k","l","m",
               "n","o","p","q","r","s","t","u","v","w","x","y","z"}
    \/ ch \in {"A","B","C","D","E","F","G","H","I","J","K","L","M",
               "N","O","P","Q","R","S","T","U","V","W","X","Y","Z"}
    \/ ch = "_"

isDigit(ch) == ch \in {"0","1","2","3","4","5","6","7","8","9"}

\* input[i] and input[from:to], positions counted from 0 as in Go.  A byte
\* is the one-character string that holds it.
ByteAt(input, i) == SubSeq(input, i + 1, i + 1)

Slice(input, from, to) == SubSeq(input, from + 1, to)

readChar(l) ==
    [l EXCEPT !.ch = IF l.readPosition >= Len(l.input)
                     THEN NUL
                     ELSE ByteAt(l.input, l.readPosition),
              !.position = l.readPosition,
              !.readPosition = l.readPosition + 1]

LexerNew(input) ==
    readChar([input |-> input, position |-> 0, readPosition |-> 0,
              ch |-> NUL, panicked |-> FALSE])

RECURSIVE eatWhitespace(_)
eatWhitespace(l) ==
    IF l.ch = " " \/ l.ch = "\t" \/ l.ch = "\n" \/ l.ch = "\r"
    THEN eatWhitespace(readChar(l))
    ELSE l

\* peekChar indexes l.input[l.readPosition] unless readPosition > len: with
\* readPosition = len the index is out of range and the Go runtime panics.
peekCharPanics(l) ==
    ~(l.readPosition > Len(l.input)) /\ l.readPosition >= Len(l.input)

peekChar(l) ==
    IF l.readPosition > Len(l.input)
    THEN NUL
    ELSE ByteAt(l.input, l.readPosition)

newToken(tokenType, ch) == Token(tokenType, ch)

\* The value of an expression in which a name stands for an intermediate
\* result is written The({expression : name \in {result}}).
The(S) == CHOOSE x \in S : TRUE

RECURSIVE skipLetters(_)
skipLetters(l) == IF isLetter(l.ch) THEN skipLetters(readChar(l)) ELSE l

readIdentifier(l) ==
    The({[lit |-> Slice(l.input, l.position, l2.position), l |-> l2]
         : l2 \in {skipLetters(l)}})

RECURSIVE skipDigits(_)
skipDigits(l) == IF isDigit(l.ch) THEN skipDigits(readChar(l)) ELSE l

readNumber(l) ==
    The({[lit |-> Slice(l.input, l.position, l2.position), l |-> l2]
         : l2 \in {skipDigits(l)}})

RECURSIVE skipString(_)
skipString(l) ==
    The({IF l2.ch = "\"" \/ l2.ch = NUL THEN l2 ELSE skipString(l2)
         : l2 \in {readChar(l)}})

readString(l) ==
    The({[lit |-> Slice(l.input, l.position + 1, l2.position), l |-> l2]
         : l2 \in {skipString(l)}})

\* The single-character kinds NextToken's switch handles.
singleCharKinds ==
    [x \in {";", "(", ")", ",", "+", "{", "}", "-", "*", "/", "<", ">"} |->
        CASE x = ";" -> token.SEMICOLON [] x = "(" -> token.LPAREN   [] x = ")" -> token.RPAREN
          [] x = "," -> token.COMMA     [] x = "+" -> token.PLUS     [] x = "{" -> token.LBRACE
          [] x = "}" -> token.RBRACE    [] x = "-" -> token.MINUS    [] x = "*" -> token.ASTERISK
          [] x = "/" -> token.SLASH     [] x = "<" -> token.LT       [] x = ">" -> token.GT]

\* The cases of "[", "]" and ":", which the parser relies on and the lexer
\* source at hand does not hold: each emits its own kind.
bracketKinds ==
    [x \in {"[", "]", ":"} |->
        CASE x = "[" -> LBRACKET [] x = "]" -> RBRACKET [] x = ":" -> COLON]

\* The two-character tokens "==" and "!=".
twoCharToken(l, kind) ==
    The({[tok |-> Token(kind, l.ch \o l2.ch), l |-> readChar(l2)]
         : l2 \in {readChar(l)}})

\* tok = newToken(kind, l.ch), followed by the readChar that ends NextToken.
oneCharToken(l, kind) == [tok |-> newToken(kind, l.ch), l |-> readChar(l)]

\* NextToken: the token and the lexer after it.  A lexer that has panicked
\* yields EOF from then on; its caller is unwound by the drivers.
NextToken(l0) ==
    IF l0.panicked THEN [tok |-> Token(token.EOF, ""), l |-> l0]
    ELSE The({
        CASE l.ch = "=" ->
                IF peekCharPanics(l)
                THEN [tok |-> Token(token.EOF, ""), l |-> [l EXCEPT !.panicked = TRUE]]
                ELSE IF peekChar(l) = "=" THEN twoCharToken(l, token.EQ)
                ELSE oneCharToken(l, token.ASSIGN)
          [] l.ch = "!" ->
                IF peekCharPanics(l)
                THEN [tok |-> Token(token.EOF, ""), l |-> [l EXCEPT !.panicked = TRUE]]
                ELSE IF peekChar(l) = "=" THEN twoCharToken(l, token.NE)
                ELSE oneCharToken(l, token.BANG)
          [] l.ch \in DOMAIN singleCharKinds -> oneCharToken(l, singleCharKinds[l.ch])
          [] l.ch \in DOMAIN bracketKinds -> oneCharToken(l, bracketKinds[l.ch])
          [] l.ch = "\"" ->
                The({[tok |-> Token(STRING_T, r.lit), l |-> readChar(r.l)]
                     : r \in {readString(l)}})
          [] l.ch = NUL -> [tok |-> Token(token.EOF, ""), l |-> readChar(l)]
          [] OTHER ->
                IF isLetter(l.ch)
                THEN The({[tok |-> Token(LookupIdent(r.lit), r.lit), l |-> r.l]
                          : r \in {readIdentifier(l)}})
                ELSE IF isDigit(l.ch)
                THEN The({[tok |-> Token(token.INT, r.lit), l |-> r.l]
                          : r \in {readNumber(l)}})
                ELSE oneCharToken(l, token.ILLEGAL)
        : l \in {eatWhitespace(l0)}})

(***************************************************************************)
(* ast: a node is a record tagged by the name of its Go type.  A field     *)
(* name holds one kind of value throughout: StrValue a string, IntValue an *)
(* integer, BoolValue a boolean, the others nodes or sequences of nodes.   *)
(***************************************************************************)
\* The nil ast.Expression / ast.Statement interface value.
NilNode == [node |-> "nil"]

\* A nil *ast.VarStatement held in an ast.Statement interface: the interface
\* value is not nil.
NilVarStatement == [node |-> "nil *VarStatement"]

\* A node is written as the record of its fields: &ast.Program{Statements: s}
\* is [node |-> "Program", Statements |-> s].  HashLiteral.Pairs is a Go map
\* keyed by the key node (a pointer): here the entries in the order they were
\* inserted; ranging over it takes them in any order.

(***************************************************************************)
(* parser: every production takes the parser and returns the node it built *)
(* (n) with the parser after it (p).                                       *)
(***************************************************************************)
LOWEST      == 1
EQUALS      == 2
LESSGREATER == 3
SUM         == 4
PRODUCT     == 5
PREFIX      == 6
CALL        == 7
INDEX       == 8

\* precedences with * and / on the rung of + and -.
precedencesLevelled ==
    [t \in {token.EQ, token.NE, token.LT, token.GT, token.PLUS, token.MINUS, token.SLASH, token.ASTERISK, token.LPAREN, LBRACKET} |->
        CASE t \in {token.EQ, token.NE}           -> EQUALS
          [] t \in {token.LT, token.GT}           -> LESSGREATER
          [] t \in {token.PLUS, token.MINUS}      -> SUM
          [] t \in {token.SLASH, token.ASTERISK}  -> SUM
          [] t = token.LPAREN               -> CALL
          [] t = LBRACKET             -> INDEX]

precedences ==
    [t \in {token.EQ, token.NE, token.LT, token.GT, token.PLUS, token.MINUS, token.SLASH, token.ASTERISK, token.LPAREN, LBRACKET} |->
        CASE t \in {token.EQ, token.NE}           -> EQUALS
          [] t \in {token.LT, token.GT}           -> LESSGREATER
          [] t \in {token.PLUS, token.MINUS}      -> SUM
          [] t \in {token.SLASH, token.ASTERISK}  -> PRODUCT
          [] t = token.LPAREN               -> CALL
          [] t = LBRACKET             -> INDEX]

\* The token kinds New registers a prefix, respectively an infix, parser for.
prefixParseFunc ==
    {token.IDENT, token.INT, STRING_T, token.BANG, token.MINUS, token.TRUE_T, token.FALSE_T, token.LPAREN, token.IF_T,
     token.FUNCTION, LBRACKET, token.LBRACE}

infixParseFunc ==
    {token.PLUS, token.MINUS, token.SLASH, token.ASTERISK, token.EQ, token.NE, token.LT, token.GT, token.LPAREN, LBRACKET}

nextToken(p) ==
    The({[p EXCEPT !.currentToken = p.peekToken, !.peekToken = r.tok, !.l = r.l]
         : r \in {NextToken(p.l)}})

ParserNew(l) ==
    nextToken(nextToken([l |-> l, currentToken |-> Token("", ""),
                         peekToken |-> Token("", ""), errors |-> <<>>]))

currentTokenIs(p, t) == p.currentToken.Type = t

peekTokenIs(p, t) == p.peekToken.Type = t

peekError(p, t) ==
    [p EXCEPT !.errors = Append(@, "expected next token to be " \o t
                                    \o ", got " \o p.peekToken.Type)]

noPrefixParseFuncError(p, t) ==
    [p EXCEPT !.errors = Append(@, "no prefix parse function for " \o t \o " found")]

expectPeek(p, t) ==
    IF peekTokenIs(p, t)
    THEN [ok |-> TRUE, p |-> nextToken(p)]
    ELSE [ok |-> FALSE, p |-> peekError(p, t)]

peekPrecedence(p) ==
    IF p.peekToken.Type \in DOMAIN precedences
    THEN precedences[p.peekToken.Type] ELSE LOWEST

currentPrecedence(p) ==
    IF p.currentToken.Type \in DOMAIN precedences
    THEN precedences[p.currentToken.Type] ELSE LOWEST

\* Errors answering with an empty log whatever was recorded.
NoErrors(p) == <<>>

Errors(p) == p.errors

DigitValue(ch) ==
    CASE ch = "0" -> 0 [] ch = "1" -> 1 [] ch = "2" -> 2 [] ch = "3" -> 3
      [] ch = "4" -> 4 [] ch = "5" -> 5 [] ch = "6" -> 6 [] ch = "7" -> 7
      [] ch = "8" -> 8 [] ch = "9" -> 9

RECURSIVE DigitsValue(_, _, _)
DigitsValue(lit, base, acc) ==
    IF lit = "" THEN acc
    ELSE DigitsValue(Tail(lit), base, acc * base + DigitValue(Head(lit)))

\* ParseInt reading every run of digits in base 10.
ParseIntDecimal(lit) == [ok |-> TRUE, value |-> DigitsValue(lit, 10, 0)]

\* strconv.ParseInt(lit, 0, 64) on a run of digits: base 0 reads a leading
\* "0" as the octal prefix, so the run must then hold digits below 8 only.
\* (The 64-bit range check is not modelled: the literals checked are small.)
ParseInt(lit) ==
    The({IF \A i \in 1..Len(lit) : DigitValue(SubSeq(lit, i, i)) < base
         THEN [ok |-> TRUE, value |-> DigitsValue(lit, base, 0)]
         ELSE [ok |-> FALSE, value |-> 0]
         : base \in {IF Len(lit) > 1 /\ Head(lit) = "0" THEN 8 ELSE 10}})

Parsed(n, p) == [n |-> n, p |-> p]

RECURSIVE parseStatement(_), parseVarStatement(_), parseReturnStatement(_),
          parseExpressionStatement(_), parseExpression(_, _),
          parseInfixes(_, _, _), parseGroupedExpression(_), parsePrefixExpression(_),
          parseInfixExpression(_, _), parseIfExpression(_),
          parseBlockStatement(_), parseBlockStatements(_, _),
          parseFunctionLiteral(_), parseFunctionParameters(_),
          parseMoreParameters(_, _), parseArrayLiteral(_),
          parseCallExpression(_, _), parseIndexExpression(_, _),
          parseHashLiteral(_), parseHashPairs(_, _), parseElse(_, _),
          parseExpressionList(_, _), parseMoreExpressions(_, _)

RECURSIVE skipSemicolons(_)
skipSemicolons(p) ==
    IF peekTokenIs(p, token.SEMICOLON) THEN skipSemicolons(nextToken(p)) ELSE p

parseStatement(p) ==
    CASE p.currentToken.Type = token.VAR    -> parseVarStatement(p)
      [] p.currentToken.Type = token.RETURN -> parseReturnStatement(p)
      [] OTHER                              -> parseExpressionStatement(p)

parseVarStatement(p) ==
    The({IF ~e1.ok THEN Parsed(NilVarStatement, e1.p)
         ELSE The({IF ~e2.ok THEN Parsed(NilVarStatement, e2.p)
                   ELSE The({Parsed([node |-> "VarStatement",
                                     Name |-> [node |-> "Identifier", StrValue |-> e1.p.currentToken.Literal],
                                     Value |-> value.n],
                                    skipSemicolons(value.p))
                             : value \in {parseExpression(nextToken(e2.p), LOWEST)}})
                   : e2 \in {expectPeek(e1.p, token.ASSIGN)}})
         : e1 \in {expectPeek(p, token.IDENT)}})

parseReturnStatement(p) ==
    The({Parsed([node |-> "ReturnStatement",
                 ReturnValue |-> value.n], skipSemicolons(value.p))
         : value \in {parseExpression(nextToken(p), LOWEST)}})

parseExpressionStatement(p) ==
    The({Parsed([node |-> "ExpressionStatement", Expression |-> e.n],
                IF peekTokenIs(e.p, token.SEMICOLON) THEN nextToken(e.p) ELSE e.p)
         : e \in {parseExpression(p, LOWEST)}})

parseIdentifier(p) == Parsed([node |-> "Identifier",
                              StrValue |-> p.currentToken.Literal], p)

parseIntegerLiteral(p) ==
    The({IF ~r.ok
         THEN Parsed(NilNode,
                     [p EXCEPT !.errors = Append(@, "could not parse "
                                   \o p.currentToken.Literal \o " as integer")])
         ELSE Parsed([node |-> "IntegerLiteral", IntValue |-> r.value], p)
         : r \in {ParseInt(p.currentToken.Literal)}})

parseStringLiteral(p) == Parsed([node |-> "StringLiteral",
                                 StrValue |-> p.currentToken.Literal], p)

parseBoolean(p) == Parsed([node |-> "Boolean",
                           BoolValue |-> currentTokenIs(p, token.TRUE_T)], p)

\* prefix := p.prefixParseFunc[p.currentToken.Type]; leftExp := prefix()
parseExpression(p, precedence) ==
    IF p.currentToken.Type \notin prefixParseFunc
    THEN Parsed(NilNode, noPrefixParseFuncError(p, p.currentToken.Type))
    ELSE The({parseInfixes(left.p, left.n, precedence)
              : left \in {CASE p.currentToken.Type = token.IDENT -> parseIdentifier(p)
                            [] p.currentToken.Type = token.INT -> parseIntegerLiteral(p)
                            [] p.currentToken.Type = STRING_T -> parseStringLiteral(p)
                            [] p.currentToken.Type \in {token.BANG, token.MINUS} ->
                                  parsePrefixExpression(p)
                            [] p.currentToken.Type \in {token.TRUE_T, token.FALSE_T} ->
                                  parseBoolean(p)
                            [] p.currentToken.Type = token.LPAREN ->
                                  parseGroupedExpression(p)
                            [] p.currentToken.Type = token.IF_T -> parseIfExpression(p)
                            [] p.currentToken.Type = token.FUNCTION ->
                                  parseFunctionLiteral(p)
                            [] p.currentToken.Type = LBRACKET -> parseArrayLiteral(p)
                            [] p.currentToken.Type = token.LBRACE -> parseHashLiteral(p)}})

\* The for loop of parseExpression: infix := p.infixParseFunc[p.peekToken.Type];
\* p.nextToken(); leftExp = infix(leftExp)
parseInfixes(p, leftExp, precedence) ==
    IF ~peekTokenIs(p, token.SEMICOLON) /\ precedence < peekPrecedence(p)
    THEN IF p.peekToken.Type \notin infixParseFunc
         THEN Parsed(leftExp, p)
         ELSE The({parseInfixes(r.p, r.n, precedence)
                   : r \in {The({CASE p1.currentToken.Type = token.LPAREN ->
                                          parseCallExpression(p1, leftExp)
                                   [] p1.currentToken.Type = LBRACKET ->
                                          parseIndexExpression(p1, leftExp)
                                   [] OTHER -> parseInfixExpression(p1, leftExp)
                                 : p1 \in {nextToken(p)}})}})
    ELSE Parsed(leftExp, p)

parseGroupedExpression(p) ==
    The({The({IF ~e.ok THEN Parsed(NilNode, e.p) ELSE Parsed(exp.n, e.p)
              : e \in {expectPeek(exp.p, token.RPAREN)}})
         : exp \in {parseExpression(nextToken(p), LOWEST)}})

parsePrefixExpression(p) ==
    The({Parsed([node |-> "PrefixExpression",
                 Operator |-> p.currentToken.Literal,
                 Right |-> right.n], right.p)
         : right \in {parseExpression(nextToken(p), PREFIX)}})

parseInfixExpression(p, left) ==
    The({Parsed([node |-> "InfixExpression",
                 Operator |-> p.currentToken.Literal,
                 Left |-> left,
                 Right |-> right.n], right.p)
         : right \in {parseExpression(nextToken(p), currentPrecedence(p))}})

\* The else branch of parseIfExpression, after the consequence cons.
parseElse(cond, cons) ==
    The({IF ~e4.ok THEN Parsed(NilNode, e4.p)
         ELSE The({Parsed([node |-> "IfExpression",
                           Condition |-> cond.n,
                           Consequence |-> cons.n,
                           Alternative |-> alt.n], alt.p)
                   : alt \in {parseBlockStatement(e4.p)}})
         : e4 \in {expectPeek(nextToken(cons.p), token.LBRACE)}})

parseIfExpression(p) ==
    The({IF ~e1.ok THEN Parsed(NilNode, e1.p)
         ELSE The({The({IF ~e2.ok THEN Parsed(NilNode, e2.p)
                        ELSE The({IF ~e3.ok THEN Parsed(NilNode, e3.p)
                                  ELSE The({IF peekTokenIs(cons.p, token.ELSE_T)
                                            THEN parseElse(cond, cons)
                                            ELSE Parsed([node |-> "IfExpression",
                                                         Condition |-> cond.n,
                                                         Consequence |-> cons.n,
                                                         Alternative |-> NilNode],
                                                        cons.p)
                                            : cons \in {parseBlockStatement(e3.p)}})
                                  : e3 \in {expectPeek(e2.p, token.LBRACE)}})
                        : e2 \in {expectPeek(cond.p, token.RPAREN)}})
                   : cond \in {parseExpression(nextToken(e1.p), LOWEST)}})
         : e1 \in {expectPeek(p, token.LPAREN)}})

parseBlockStatement(p) ==
    The({Parsed([node |-> "BlockStatement", Statements |-> r.n], r.p)
         : r \in {parseBlockStatements(nextToken(p), <<>>)}})

\* The for loop of parseBlockStatement; n is block.Statements.
parseBlockStatements(p, stmts) ==
    IF ~currentTokenIs(p, token.RBRACE) /\ ~currentTokenIs(p, token.EOF)
    THEN The({parseBlockStatements(
                  nextToken(stmt.p),
                  IF stmt.n # NilNode THEN Append(stmts, stmt.n) ELSE stmts)
              : stmt \in {parseStatement(p)}})
    ELSE Parsed(stmts, p)

parseFunctionLiteral(p) ==
    The({IF ~e1.ok THEN Parsed(NilNode, e1.p)
         ELSE The({The({IF ~e2.ok THEN Parsed(NilNode, e2.p)
                        ELSE The({Parsed([node |-> "FunctionLiteral",
                                          Parameters |-> params.n,
                                          Body |-> body.n], body.p)
                                  : body \in {parseBlockStatement(e2.p)}})
                        : e2 \in {expectPeek(params.p, token.LBRACE)}})
                   : params \in {parseFunctionParameters(e1.p)}})
         : e1 \in {expectPeek(p, token.LPAREN)}})

parseFunctionParameters(p) ==
    IF peekTokenIs(p, token.RPAREN)
    THEN Parsed(<<>>, nextToken(p))
    ELSE The({The({The({IF ~e.ok THEN Parsed(<<>>, e.p) ELSE Parsed(r.n, e.p)
                        : e \in {expectPeek(r.p, token.RPAREN)}})
                   : r \in {parseMoreParameters(
                               p1, <<[node |-> "Identifier",
                                      StrValue |-> p1.currentToken.Literal]>>)}})
              : p1 \in {nextToken(p)}})

parseMoreParameters(p, identifiers) ==
    IF peekTokenIs(p, token.COMMA)
    THEN The({parseMoreParameters(
                  p2, Append(identifiers, [node |-> "Identifier",
                                           StrValue |-> p2.currentToken.Literal]))
              : p2 \in {nextToken(nextToken(p))}})
    ELSE Parsed(identifiers, p)

parseArrayLiteral(p) ==
    The({Parsed([node |-> "ArrayLiteral",
                 Elements |-> r.n], r.p) : r \in {parseExpressionList(p, RBRACKET)}})

parseCallExpression(p, function) ==
    The({Parsed([node |-> "CallExpression",
                 Function |-> function,
                 Arguments |-> r.n], r.p)
         : r \in {parseExpressionList(p, token.RPAREN)}})

parseIndexExpression(p, left) ==
    The({The({IF ~e.ok THEN Parsed(NilNode, e.p)
              ELSE Parsed([node |-> "IndexExpression",
                           Left |-> left,
                           Index |-> index.n], e.p)
              : e \in {expectPeek(index.p, RBRACKET)}})
         : index \in {parseExpression(nextToken(p), LOWEST)}})

\* hash.Pairs[key] = value: a key node is a pointer, so only a nil key can
\* already be present.
PutPair(pairs, key, value) ==
    IF key = NilNode /\ \E i \in DOMAIN pairs : pairs[i].Key = NilNode
    THEN [i \in DOMAIN pairs |->
             IF pairs[i].Key = NilNode THEN [Key |-> key, Value |-> value]
             ELSE pairs[i]]
    ELSE Append(pairs, [Key |-> key, Value |-> value])

parseHashLiteral(p) ==
    The({IF ~r.ok THEN Parsed(NilNode, r.p)
         ELSE The({IF ~e.ok THEN Parsed(NilNode, e.p)
                   ELSE Parsed([node |-> "HashLiteral", Pairs |-> r.n], e.p)
                   : e \in {expectPeek(r.p, token.RBRACE)}})
         : r \in {parseHashPairs(p, <<>>)}})

\* The for loop of parseHashLiteral; n is hash.Pairs, and ok is FALSE once
\* the production has returned nil from inside the loop.
parseHashPairs(p, pairs) ==
    IF ~peekTokenIs(p, token.RBRACE)
    THEN The({The({
            IF ~e1.ok THEN [ok |-> FALSE, n |-> <<>>, p |-> e1.p]
            ELSE The({
                    IF peekTokenIs(value.p, token.RBRACE)
                    THEN parseHashPairs(value.p, PutPair(pairs, key.n, value.n))
                    ELSE The({IF ~e2.ok THEN [ok |-> FALSE, n |-> <<>>, p |-> e2.p]
                              ELSE parseHashPairs(e2.p,
                                       PutPair(pairs, key.n, value.n))
                              : e2 \in {expectPeek(value.p, token.COMMA)}})
                    : value \in {parseExpression(nextToken(e1.p), LOWEST)}})
            : e1 \in {expectPeek(key.p, COLON)}})
         : key \in {parseExpression(nextToken(p), LOWEST)}})
    ELSE [ok |-> TRUE, n |-> pairs, p |-> p]

parseExpressionList(p, end) ==
    IF peekTokenIs(p, end)
    THEN Parsed(<<>>, nextToken(p))
    ELSE The({The({The({IF ~e.ok THEN Parsed(<<>>, e.p) ELSE Parsed(r.n, e.p)
                        : e \in {expectPeek(r.p, end)}})
                   : r \in {parseMoreExpressions(first.p, <<first.n>>)}})
              : first \in {parseExpression(nextToken(p), LOWEST)}})

parseMoreExpressions(p, list) ==
    IF peekTokenIs(p, token.COMMA)
    THEN The({parseMoreExpressions(e.p, Append(list, e.n))
              : e \in {parseExpression(nextToken(nextToken(p)), LOWEST)}})
    ELSE Parsed(list, p)

\* The for loop of ParseProgram; n is program.Statements.
RECURSIVE parseProgramStatements(_, _)
parseProgramStatements(p, stmts) ==
    IF ~currentTokenIs(p, token.EOF)
    THEN The({parseProgramStatements(
                  nextToken(stmt.p),
                  IF stmt.n # NilNode THEN Append(stmts, stmt.n) ELSE stmts)
              : stmt \in {parseStatement(p)}})
    ELSE Parsed(stmts, p)

ParseProgram(p) ==
    The({Parsed([node |-> "Program",
                 Statements |-> r.n], r.p) : r \in {parseProgramStatements(p, <<>>)}})

(***************************************************************************)
(* object: a value is a record tagged by its ObjectType.                   *)
(***************************************************************************)
object ==
    [INTEGER_OBJ      |-> "INTEGER",
     STRING_OBJ       |-> "STRING",
     BOOLEAN_OBJ      |-> "BOOLEAN",
     NULL_OBJ         |-> "NULL",
     RETURN_VALUE_OBJ |-> "RETURN_VALUE",
     ERROR_OBJ        |-> "ERROR",
     FUNCTION_OBJ     |-> "FUNCTION",
     BUILTIN_OBJ      |-> "BUILTIN",
     ARRAY_OBJ        |-> "ARRAY",
     HASH_OBJ         |-> "HASH"]

\* The nil object.Object interface value.
NilObj == [Type |-> "nil"]

Integer(value)     == [Type |-> object.INTEGER_OBJ, IntValue |-> value]
String(value)      == [Type |-> object.STRING_OBJ, StrValue |-> value]
Boolean(value)     == [Type |-> object.BOOLEAN_OBJ, BoolValue |-> value]
ReturnValue(value) == [Type |-> object.RETURN_VALUE_OBJ, Value |-> value]
Error(message)     == [Type |-> object.ERROR_OBJ, Message |-> message]
Array(elements)    == [Type |-> object.ARRAY_OBJ, Elements |-> elements]
\* A Function that does not keep the environment it was made in: its Env
\* is the nil pointer.
FunctionWithoutEnv(parameters, body, e) ==
    [Type |-> object.FUNCTION_OBJ, Parameters |-> parameters, Body |-> body,
     Env |-> 0]

Function(parameters, body, e) ==
    [Type |-> object.FUNCTION_OBJ, Parameters |-> parameters, Body |-> body, Env |-> e]
\* A Builtin holds a Go func; it is named here by its key in builtins.
Builtin(name)      == [Type |-> object.BUILTIN_OBJ, Name |-> name]
\* Hash.Pairs, a Go map: a function from HashKey to HashPair.
Hash(pairs)        == [Type |-> object.HASH_OBJ, Pairs |-> pairs]
HashPair(key, value) == [Key |-> key, Value |-> value]

NULL      == [Type |-> object.NULL_OBJ]
TRUE_OBJ  == Boolean(TRUE)
FALSE_OBJ == Boolean(FALSE)

\* What a Go panic leaves in place of a value: it unwinds every caller.
NilDereference  == "invalid memory address or nil pointer dereference"
IndexOutOfRange == "index out of range"
DivideByZero    == "integer divide by zero"
NoPanic         == "no panic"
Panic(message)  == [Type |-> "panic", Message |-> message]
IsPanic(obj)    == obj.Type = "panic"

\* obj.(object.Hashable)
Hashable(obj) == obj.Type \in {object.BOOLEAN_OBJ, object.INTEGER_OBJ, object.STRING_OBJ}

\* HashKey with a Boolean's key under the type of the Integers.
HashKeyUntyped(obj) ==
    CASE obj.Type = object.BOOLEAN_OBJ ->
            [Type |-> object.INTEGER_OBJ, Uint64 |-> IF obj.BoolValue THEN 1 ELSE 0]
      [] obj.Type = object.INTEGER_OBJ -> [Type |-> object.INTEGER_OBJ, Uint64 |-> obj.IntValue]
      [] obj.Type = object.STRING_OBJ  -> [Type |-> object.STRING_OBJ, Sum64 |-> obj.StrValue]

\* HashKey{Type, Value}.  Value is a uint64: of an Integer its value, of a
\* Boolean 1 or 0 (both under Uint64), of a String its FNV-1a sum, which is
\* taken to tell the strings of the model apart and is written as the string.
HashKey(obj) ==
    CASE obj.Type = object.BOOLEAN_OBJ ->
            [Type |-> object.BOOLEAN_OBJ, Uint64 |-> IF obj.BoolValue THEN 1 ELSE 0]
      [] obj.Type = object.INTEGER_OBJ -> [Type |-> object.INTEGER_OBJ, Uint64 |-> obj.IntValue]
      [] obj.Type = object.STRING_OBJ  -> [Type |-> object.STRING_OBJ, Sum64 |-> obj.StrValue]

\* strings.Join(elems, sep)
RECURSIVE JoinStrings(_, _)
JoinStrings(elems, sep) ==
    IF elems = <<>> THEN ""
    ELSE IF Len(elems) = 1 THEN elems[1]
    ELSE elems[1] \o sep \o JoinStrings(Tail(elems), sep)

\* All the orders in which range can take the keys of a Go map.
RECURSIVE Orders(_)
Orders(keys) ==
    IF keys = {} THEN {<<>>}
    ELSE UNION {{<<k>> \o rest : rest \in Orders(keys \ {k})} : k \in keys}

\* Inspect(): the display forms a value can have (a Hash is written in the
\* order range yields its pairs), each with whether writing it panicked on a
\* nil value inside.  A Function's body is written by ast's String(), which
\* is not modelled: it stands as "...".
RECURSIVE Inspect(_), InspectEach(_)
Inspect(obj) ==
    CASE obj = NilObj              -> {[ok |-> FALSE, s |-> ""]}
      [] obj.Type = object.INTEGER_OBJ    -> {[ok |-> TRUE, s |-> ToString(obj.IntValue)]}
      [] obj.Type = object.STRING_OBJ     -> {[ok |-> TRUE, s |-> obj.StrValue]}
      [] obj.Type = object.BOOLEAN_OBJ    ->
            {[ok |-> TRUE, s |-> IF obj.BoolValue THEN "true" ELSE "false"]}
      [] obj.Type = object.NULL_OBJ       -> {[ok |-> TRUE, s |-> "null"]}
      [] obj.Type = object.RETURN_VALUE_OBJ -> Inspect(obj.Value)
      [] obj.Type = object.ERROR_OBJ      -> {[ok |-> TRUE, s |-> "ERROR: " \o obj.Message]}
      [] obj.Type = object.BUILTIN_OBJ    -> {[ok |-> TRUE, s |-> "builtin function"]}
      [] obj.Type = object.FUNCTION_OBJ   ->
            {[ok |-> TRUE,
              s |-> "func(" \o JoinStrings([i \in DOMAIN obj.Parameters |->
                                               obj.Parameters[i].StrValue], ",")
                    \o ") {\n...\n}"]}
      [] obj.Type = object.ARRAY_OBJ      ->
            {[ok |-> e.ok, s |-> "[" \o JoinStrings(e.ss, ", ") \o "]"] :
                e \in InspectEach(obj.Elements)}
      [] obj.Type = object.HASH_OBJ       ->
            UNION {
              {[ok |-> k.ok /\ v.ok,
                s |-> "{" \o JoinStrings([i \in DOMAIN order |->
                                 k.ss[i] \o ": " \o v.ss[i]], ", ") \o "}"] :
                  k \in InspectEach([i \in DOMAIN order |-> obj.Pairs[order[i]].Key]),
                  v \in InspectEach([i \in DOMAIN order |-> obj.Pairs[order[i]].Value])}
              : order \in Orders(DOMAIN obj.Pairs)}

\* The display forms of each value of a sequence.
InspectEach(objs) ==
    IF objs = <<>> THEN {[ok |-> TRUE, ss |-> <<>>]}
    ELSE {[ok |-> h.ok /\ t.ok, ss |-> <<h.s>> \o t.ss] :
             h \in Inspect(Head(objs)), t \in InspectEach(Tail(objs))}

(***************************************************************************)
(* Environment: a *Environment is the index of its record in the heap; the *)
(* nil pointer is 0.                                                       *)
(***************************************************************************)
NilEnv == 0

\* NewEnvironment(): the heap with the new environment, whose id is its length.
NewEnvironment(h) == Append(h, [store |-> <<>>, outer |-> NilEnv])

\* NewEnclosedEnvironment without the assignment env.outer = outer.
NewDetachedEnvironment(h, outer) == NewEnvironment(h)

NewEnclosedEnvironment(h, outer) == Append(h, [store |-> <<>>, outer |-> outer])

\* store is a Go map from name to Object: a function on the names bound.
RECURSIVE Get(_, _, _)
Get(h, e, name) ==
    IF name \in DOMAIN h[e].store THEN [obj |-> h[e].store[name], ok |-> TRUE]
    ELSE IF h[e].outer # NilEnv THEN Get(h, h[e].outer, name)
    ELSE [obj |-> NilObj, ok |-> FALSE]

\* Set writing to the enclosing environment, when there is one.
SetOuter(h, e, name, val) ==
    [h EXCEPT ![IF h[e].outer # NilEnv THEN h[e].outer ELSE e].store =
        [n \in DOMAIN @ \cup {name} |-> IF n = name THEN val ELSE @[n]]]

Set(h, e, name, val) ==
    [h EXCEPT ![e].store =
        [n \in DOMAIN h[e].store \cup {name} |->
            IF n = name THEN val ELSE h[e].store[n]]]

(***************************************************************************)
(* evaluator.  The state threaded through Eval: the heap of environments,  *)
(* what print has written, and the record g of observations made on the    *)
(* way (it changes nothing the code computes).  An evaluation is the set   *)
(* of the outcomes [val, st] it can have: more than one where the code     *)
(* ranges over a Go map.                                                   *)
(***************************************************************************)
Ret(val, st) == [val |-> val, st |-> st]

\* A []object.Object
List(elems) == [Type |-> "[]Object", Elements |-> elems]

newError(message) == Error(message)

\* isError blind to every Error.
isErrorNever(obj) == FALSE

isError(obj) == IF obj # NilObj THEN obj.Type = object.ERROR_OBJ ELSE FALSE

\* The two ways a sub-evaluation ends its caller at once: the Error the
\* caller returns as it is, and the panic that unwinds it.
Stops(obj) == IsPanic(obj) \/ isError(obj)

nativeBoolToBooleanObject(input) == IF input THEN TRUE_OBJ ELSE FALSE_OBJ

\* isTruthy with the integer 0 taken for false.
isTruthyNonZero(obj) ==
    CASE obj = NULL       -> FALSE
      [] obj = TRUE_OBJ   -> TRUE
      [] obj = FALSE_OBJ  -> FALSE
      [] obj = Integer(0) -> FALSE
      [] OTHER            -> TRUE

isTruthy(obj) ==
    CASE obj = NULL      -> FALSE
      [] obj = TRUE_OBJ  -> TRUE
      [] obj = FALSE_OBJ -> FALSE
      [] OTHER           -> TRUE

\* unwrapReturnValue without its unwrapping.
keepReturnValue(obj) == obj

unwrapReturnValue(obj) ==
    IF obj.Type = object.RETURN_VALUE_OBJ THEN obj.Value ELSE obj

(***************************************************************************)
(* Observations.  acts is the stack of activations (the program, then each *)
(* call of a Function in progress).                                        *)
(***************************************************************************)
Activation(e) ==
    [env |-> e, returned |-> FALSE, val |-> NilObj, depth |-> 0,
     calleeReturned |-> FALSE,
     before |-> <<>>]             \* the heap when the call began

NewObservations(e) ==
    [firstErr        |-> NilObj,  \* the first Error an Eval returned
     afterErr        |-> FALSE,   \* an Eval started after that
     errLost         |-> FALSE,   \* an Eval ended after that with another value
     acts            |-> <<Activation(e)>>,
     stmtAfterReturn |-> FALSE,   \* a statement ran in an activation that had returned
     retLost         |-> FALSE,   \* an activation's value is not what it returned
     spuriousReturn  |-> FALSE,   \* a loop stopped on a ReturnValue no return made
     resumed         |-> FALSE,   \* a caller ran a statement after a callee returned
     retDepth        |-> 0,       \* deepest block nesting a call's return ran at
     leaks           |-> {},      \* where a ReturnValue or Error was used as a value
     calls           |-> {},      \* [captured, outer, caller] of each Function call
     divZero         |-> FALSE,   \* an Integer was divided by 0
     arity           |-> FALSE,   \* a Function got another number of arguments
     nilExpr         |-> FALSE,   \* an expression node evaluated to nil
     outOfOrder      |-> FALSE,   \* a hash pair ran before one written before it
     outerWritten    |-> FALSE]   \* a call changed an environment other than its own

Top(st) == st.g.acts[Len(st.g.acts)]

Enter(node, st) ==
    LET top == Top(st)
        stmt == node.node \in {"VarStatement", "ReturnStatement", "ExpressionStatement"}
    IN [st EXCEPT !.g.afterErr = @ \/ st.g.firstErr # NilObj,
                  !.g.stmtAfterReturn = @ \/ (stmt /\ top.returned),
                  !.g.resumed = @ \/ (stmt /\ top.calleeReturned)]

Leave(node, o) ==
    IF IsPanic(o.val) THEN o
    ELSE Ret(o.val,
             [o.st EXCEPT
                !.g.firstErr = IF @ = NilObj /\ o.val.Type = object.ERROR_OBJ THEN o.val ELSE @,
                !.g.errLost = @ \/ (o.st.g.firstErr # NilObj /\ o.val # o.st.g.firstErr),
                !.g.nilExpr = @ \/ (/\ o.val = NilObj
                                    /\ node.node \in
                                         {"Identifier", "IntegerLiteral", "StringLiteral",
                                          "Boolean", "PrefixExpression", "InfixExpression",
                                          "IfExpression", "FunctionLiteral", "CallExpression",
                                          "IndexExpression", "ArrayLiteral", "HashLiteral"})])

IsMarker(obj) == obj.Type \in {object.RETURN_VALUE_OBJ, object.ERROR_OBJ}

Use(st, site, objs) ==
    IF \E i \in DOMAIN objs : IsMarker(objs[i])
    THEN [st EXCEPT !.g.leaks = @ \cup {site}]
    ELSE st

Returned(st, val) ==
    LET n == Len(st.g.acts)
        top == Top(st)
    IN IF top.returned THEN st
       ELSE [st EXCEPT !.g.acts[n].returned = TRUE,
                       !.g.acts[n].val = val,
                       !.g.retDepth = IF n > 1 /\ top.depth > @ THEN top.depth ELSE @]

StoppedOnReturn(st) ==
    [st EXCEPT !.g.spuriousReturn = @ \/ ~Top(st).returned]

\* A block was entered (by = 1) or left (by = -1).
BlockDepth(st, by) == [st EXCEPT !.g.acts[Len(st.g.acts)].depth = @ + by]

Called(st, fn, args, e) ==
    [st EXCEPT !.g.calls = @ \cup {[captured |-> fn.Env, outer |-> st.heap[e].outer,
                                    caller |-> Top(st).env]},
               !.g.arity = @ \/ Len(args) # Len(fn.Parameters),
               !.g.acts = Append(@, [Activation(e) EXCEPT !.before = st.heap])]

ActivationEnd(o) ==
    IF IsPanic(o.val) THEN o
    ELSE LET n == Len(o.st.g.acts)
             top == Top(o.st)
             lost == top.returned /\ o.val # top.val
         IN Ret(o.val,
                IF n = 1 THEN [o.st EXCEPT !.g.retLost = @ \/ lost]
                ELSE [o.st EXCEPT !.g.retLost = @ \/ lost,
                                  !.g.outerWritten =
                                      @ \/ \E i \in DOMAIN top.before :
                                              /\ i # top.env
                                              /\ o.st.heap[i] # top.before[i],
                                  !.g.acts = [i \in 1..(n - 1) |->
                                      IF i = n - 1
                                      THEN [@[i] EXCEPT !.calleeReturned = @ \/ top.returned]
                                      ELSE @[i]]])

Divided(st, operator, left, right) ==
    IF /\ operator = "/"
       /\ left.Type = object.INTEGER_OBJ /\ right.Type = object.INTEGER_OBJ
       /\ right.IntValue = 0
    THEN [st EXCEPT !.g.divZero = TRUE]
    ELSE st

(***************************************************************************)
(* The operators on values: each returns the Object, or the Panic of the   *)
(* Type() call on a nil Object.                                            *)
(***************************************************************************)
evalBangOperatorExpression(right) ==
    CASE right = TRUE_OBJ  -> FALSE_OBJ
      [] right = FALSE_OBJ -> TRUE_OBJ
      [] right = NULL      -> TRUE_OBJ
      [] OTHER             -> FALSE_OBJ

evalMinusPrefixOperatorExpression(right) ==
    IF right = NilObj THEN Panic(NilDereference)
    ELSE IF right.Type # object.INTEGER_OBJ
    THEN newError("unknown operator: -" \o right.Type)
    ELSE Integer(-right.IntValue)

evalPrefixExpression(operator, right) ==
    CASE operator = "!" -> evalBangOperatorExpression(right)
      [] operator = "-" -> evalMinusPrefixOperatorExpression(right)
      [] OTHER -> IF right = NilObj THEN Panic(NilDereference)
                  ELSE newError("unknown operator: " \o operator \o right.Type)

\* Go's int64 division: the quotient truncated toward zero.
Quotient(a, b) ==
    LET q == (IF a < 0 THEN -a ELSE a) \div (IF b < 0 THEN -b ELSE b)
    IN IF (a < 0) = (b < 0) THEN q ELSE -q

unknownOperator(operator, left, right) ==
    newError("unknown operator: " \o left.Type \o " " \o operator \o " " \o right.Type)

evalIntegerInfixExpression(operator, left, right) ==
    LET leftValue  == left.IntValue
        rightValue == right.IntValue
    IN CASE operator = "+" -> Integer(leftValue + rightValue)
         [] operator = "-" -> Integer(leftValue - rightValue)
         [] operator = "*" -> Integer(leftValue * rightValue)
         [] operator = "/" -> IF rightValue = 0 THEN Panic(DivideByZero)
                              ELSE Integer(Quotient(leftValue, rightValue))
         [] operator = "<" -> nativeBoolToBooleanObject(leftValue < rightValue)
         [] operator = ">" -> nativeBoolToBooleanObject(leftValue > rightValue)
         [] operator = "==" -> nativeBoolToBooleanObject(leftValue = rightValue)
         [] operator = "!=" -> nativeBoolToBooleanObject(leftValue # rightValue)
         [] OTHER -> unknownOperator(operator, left, right)

evalStringInfixExpression(operator, left, right) ==
    CASE operator = "==" -> nativeBoolToBooleanObject(left.StrValue = right.StrValue)
      [] operator = "!=" -> nativeBoolToBooleanObject(left.StrValue # right.StrValue)
      [] operator = "+"  -> String(left.StrValue \o right.StrValue)
      [] OTHER -> unknownOperator(operator, left, right)

evalBooleanInfixExpression(operator, left, right) ==
    LET leftValue  == left.BoolValue
        rightValue == right.BoolValue
    IN CASE operator = "==" -> nativeBoolToBooleanObject(leftValue = rightValue)
         [] operator = "!=" -> nativeBoolToBooleanObject(leftValue # rightValue)
         [] OTHER -> unknownOperator(operator, left, right)

evalInfixExpression(operator, left, right) ==
    IF left = NilObj \/ right = NilObj THEN Panic(NilDereference)
    ELSE IF left.Type = object.INTEGER_OBJ /\ right.Type = object.INTEGER_OBJ
    THEN evalIntegerInfixExpression(operator, left, right)
    ELSE IF left.Type = object.BOOLEAN_OBJ /\ right.Type = object.BOOLEAN_OBJ
    THEN evalBooleanInfixExpression(operator, left, right)
    ELSE CASE left.Type # right.Type ->
                newError("type mismatch: " \o left.Type \o " " \o operator
                         \o " " \o right.Type)
           [] left.Type = object.STRING_OBJ /\ right.Type = object.STRING_OBJ ->
                evalStringInfixExpression(operator, left, right)
           [] OTHER -> unknownOperator(operator, left, right)

evalArrayIndexExpression(array, index) ==
    LET idx == index.IntValue
        max == Len(array.Elements) - 1
    IN IF idx < 0 \/ idx > max THEN NULL ELSE array.Elements[idx + 1]

evalHashIndexExpression(hash, index) ==
    IF index = NilObj THEN Panic(NilDereference)
    ELSE IF ~Hashable(index)
    THEN newError("unusable as hash key: " \o index.Type)
    ELSE IF HashKey(index) \notin DOMAIN hash.Pairs THEN NULL
    ELSE hash.Pairs[HashKey(index)].Value

evalIndexExpression(left, index) ==
    IF left = NilObj THEN Panic(NilDereference)
    ELSE IF left.Type = object.ARRAY_OBJ /\ index = NilObj THEN Panic(NilDereference)
    ELSE CASE left.Type = object.ARRAY_OBJ /\ index.Type = object.INTEGER_OBJ ->
                evalArrayIndexExpression(left, index)
           [] left.Type = object.HASH_OBJ -> evalHashIndexExpression(left, index)
           [] OTHER -> newError("index operator not supported: " \o left.Type)

(***************************************************************************)
(* builtins                                                                *)
(***************************************************************************)
builtins == {"print", "len", "first", "last", "tail", "push"}

\* print: println(arg.Inspect()) of each argument in turn.
RECURSIVE printArgs(_, _, _)
printArgs(arguments, i, st) ==
    IF i > Len(arguments) THEN {Ret(String(""), st)}
    ELSE UNION {IF ~d.ok THEN {Ret(Panic(NilDereference), st)}
                ELSE printArgs(arguments, i + 1,
                               [st EXCEPT !.printed = Append(@, d.s)])
                : d \in Inspect(arguments[i])}

\* The builtins that only compute: len, first, last, tail and push.  The
\* messages quote the builtin's name in backquotes, which a string here
\* cannot hold: an apostrophe stands for each.
builtinFunc(name, arguments) ==
    LET want == IF name = "push" THEN 2 ELSE 1 IN
    IF Len(arguments) # want
    THEN newError("wrong number of arguments. got=" \o ToString(Len(arguments))
                  \o ", want=" \o ToString(want))
    ELSE IF arguments[1] = NilObj THEN Panic(NilDereference)
    ELSE IF name = "len"
    THEN CASE arguments[1].Type = object.STRING_OBJ -> Integer(Len(arguments[1].StrValue))
           [] arguments[1].Type = object.ARRAY_OBJ  -> Integer(Len(arguments[1].Elements))
           [] OTHER -> newError("argument to 'len' not supported, got "
                                \o arguments[1].Type)
    ELSE IF arguments[1].Type # object.ARRAY_OBJ
    THEN newError("argument to '" \o name \o "' must be ARRAY, got "
                  \o arguments[1].Type)
    ELSE LET arr    == arguments[1]
             length == Len(arr.Elements)
         IN CASE name = "first" -> IF length > 0 THEN arr.Elements[1] ELSE NULL
              [] name = "last"  -> IF length > 0 THEN arr.Elements[length] ELSE NULL
              [] name = "tail"  -> IF length > 0 THEN Array(Tail(arr.Elements)) ELSE NULL
              [] name = "push"  -> Array(Append(arr.Elements, arguments[2]))

evalIdentifier(node, e, st) ==
    LET got == Get(st.heap, e, node.StrValue)
    IN IF got.ok THEN got.obj
       ELSE IF node.StrValue \in builtins THEN Builtin(node.StrValue)
       ELSE newError("identifier not found: " \o node.StrValue)

(***************************************************************************)
(* Eval                                                                    *)
(***************************************************************************)
RECURSIVE Eval(_, _, _), EvalSwitch(_, _, _), evalProgram(_, _, _),
          evalProgramLoop(_, _, _, _, _), evalBlockStatement(_, _, _),
          evalBlockLoop(_, _, _, _, _), evalIfExpression(_, _, _),
          evalExpressions(_, _, _), evalExpressionsLoop(_, _, _, _, _),
          evalHashLiteral(_, _, _), evalHashPairs(_, _, _, _, _),
          applyFunction(_, _, _)

\* Eval(node, env), with the observations made as it starts and ends.
Eval(node, e, st) == {Leave(node, o) : o \in EvalSwitch(node, e, Enter(node, st))}

\* The type switch of Eval.
EvalSwitch(node, e, st) ==
    CASE node.node = "Program" -> evalProgram(node.Statements, e, st)
      [] node.node = "ExpressionStatement" -> Eval(node.Expression, e, st)
      [] node.node = "BlockStatement" -> evalBlockStatement(node, e, st)
      [] node.node = "ReturnStatement" ->
            UNION {IF Stops(val.val) THEN {val}
                   ELSE {Ret(ReturnValue(val.val),
                             Returned(Use(val.st, "return", <<val.val>>), val.val))}
                   : val \in Eval(node.ReturnValue, e, st)}
      [] node.node = "VarStatement" ->
            UNION {IF Stops(val.val) THEN {val}
                   ELSE {Ret(NilObj,
                             [Use(val.st, "binding", <<val.val>>) EXCEPT
                                 !.heap = Set(@, e, node.Name.StrValue, val.val)])}
                   : val \in Eval(node.Value, e, st)}
      [] node.node = "nil *VarStatement" -> {Ret(Panic(NilDereference), st)}
      [] node.node = "IntegerLiteral" -> {Ret(Integer(node.IntValue), st)}
      [] node.node = "Boolean" -> {Ret(nativeBoolToBooleanObject(node.BoolValue), st)}
      [] node.node = "PrefixExpression" ->
            UNION {IF Stops(right.val) THEN {right}
                   ELSE {Ret(evalPrefixExpression(node.Operator, right.val),
                             Use(right.st, "operand", <<right.val>>))}
                   : right \in Eval(node.Right, e, st)}
      [] node.node = "InfixExpression" ->
            UNION {IF Stops(left.val) THEN {left}
                   ELSE UNION {IF Stops(right.val) THEN {right}
                               ELSE {Ret(evalInfixExpression(node.Operator, left.val,
                                                             right.val),
                                         Divided(Use(right.st, "operand",
                                                     <<left.val, right.val>>),
                                                 node.Operator, left.val, right.val))}
                               : right \in Eval(node.Right, e, left.st)}
                   : left \in Eval(node.Left, e, st)}
      [] node.node = "IfExpression" -> evalIfExpression(node, e, st)
      [] node.node = "CallExpression" ->
            UNION {IF Stops(function.val) THEN {function}
                   ELSE UNION {IF IsPanic(arguments.val) THEN {arguments}
                               ELSE IF /\ Len(arguments.val.Elements) = 1
                                       /\ isError(arguments.val.Elements[1])
                               THEN {Ret(arguments.val.Elements[1], arguments.st)}
                               ELSE applyFunction(function.val, arguments.val.Elements,
                                        Use(arguments.st, "argument",
                                            <<function.val>> \o arguments.val.Elements))
                               : arguments \in evalExpressions(node.Arguments, e,
                                                               function.st)}
                   : function \in Eval(node.Function, e, st)}
      [] node.node = "IndexExpression" ->
            UNION {IF Stops(left.val) THEN {left}
                   ELSE UNION {IF Stops(index.val) THEN {index}
                               ELSE {Ret(evalIndexExpression(left.val, index.val),
                                         Use(index.st, "operand",
                                             <<left.val, index.val>>))}
                               : index \in Eval(node.Index, e, left.st)}
                   : left \in Eval(node.Left, e, st)}
      [] node.node = "Identifier" -> {Ret(evalIdentifier(node, e, st), st)}
      [] node.node = "FunctionLiteral" ->
            {Ret(Function(node.Parameters, node.Body, e), st)}
      [] node.node = "StringLiteral" -> {Ret(String(node.StrValue), st)}
      [] node.node = "ArrayLiteral" ->
            {IF IsPanic(elements.val) THEN elements
             ELSE IF /\ Len(elements.val.Elements) = 1
                     /\ isError(elements.val.Elements[1])
             THEN Ret(elements.val.Elements[1], elements.st)
             ELSE Ret(Array(elements.val.Elements),
                      Use(elements.st, "element", elements.val.Elements))
             : elements \in evalExpressions(node.Elements, e, st)}
      [] node.node = "HashLiteral" -> evalHashLiteral(node, e, st)
      [] OTHER -> {Ret(NilObj, st)}

evalProgram(stmts, e, st) ==
    {ActivationEnd(o) : o \in evalProgramLoop(stmts, 1, NilObj, e, st)}

\* The loop of evalProgram going on after a statement that gave an Error.
evalProgramLoopThrough(stmts, i, result, e, st) ==
    IF i > Len(stmts) THEN {Ret(result, st)}
    ELSE UNION {CASE IsPanic(r.val) -> {r}
                  [] r.val.Type = object.RETURN_VALUE_OBJ ->
                        {Ret(r.val.Value, StoppedOnReturn(r.st))}
                  [] OTHER -> evalProgramLoop(stmts, i + 1, r.val, e, r.st)
                : r \in Eval(stmts[i], e, st)}

\* The loop of evalProgram from statement i on, result being the last value.
evalProgramLoop(stmts, i, result, e, st) ==
    IF i > Len(stmts) THEN {Ret(result, st)}
    ELSE UNION {CASE IsPanic(r.val) -> {r}
                  [] r.val.Type = object.RETURN_VALUE_OBJ ->
                        {Ret(r.val.Value, StoppedOnReturn(r.st))}
                  [] r.val.Type = object.ERROR_OBJ -> {r}
                  [] OTHER -> evalProgramLoop(stmts, i + 1, r.val, e, r.st)
                : r \in Eval(stmts[i], e, st)}

evalBlockStatement(block, e, st) ==
    {IF IsPanic(o.val) THEN o ELSE Ret(o.val, BlockDepth(o.st, -1))
     : o \in evalBlockLoop(block.Statements, 1, NilObj, e, BlockDepth(st, 1))}

\* The loop of evalBlockStatement from statement i on.
evalBlockLoop(stmts, i, result, e, st) ==
    IF i > Len(stmts) THEN {Ret(result, st)}
    ELSE UNION {CASE IsPanic(r.val) -> {r}
                  [] r.val # NilObj /\ r.val.Type = object.RETURN_VALUE_OBJ ->
                        {Ret(r.val, StoppedOnReturn(r.st))}
                  [] r.val # NilObj /\ r.val.Type = object.ERROR_OBJ -> {r}
                  [] OTHER -> evalBlockLoop(stmts, i + 1, r.val, e, r.st)
                : r \in Eval(stmts[i], e, st)}

evalIfExpression(ie, e, st) ==
    UNION {IF Stops(condition.val) THEN {condition}
           ELSE LET s == Use(condition.st, "condition", <<condition.val>>)
                IN IF isTruthy(condition.val) THEN Eval(ie.Consequence, e, s)
                   ELSE IF ie.Alternative # NilNode THEN Eval(ie.Alternative, e, s)
                   ELSE {Ret(NULL, s)}
           : condition \in Eval(ie.Condition, e, st)}

evalExpressions(exps, e, st) == evalExpressionsLoop(exps, 1, <<>>, e, st)

\* The loop of evalExpressions from expression i on.
evalExpressionsLoop(exps, i, result, e, st) ==
    IF i > Len(exps) THEN {Ret(List(result), st)}
    ELSE UNION {IF IsPanic(evaluated.val) THEN {evaluated}
                ELSE IF isError(evaluated.val)
                THEN {Ret(List(<<evaluated.val>>), evaluated.st)}
                ELSE evalExpressionsLoop(exps, i + 1, Append(result, evaluated.val),
                                         e, evaluated.st)
                : evaluated \in Eval(exps[i], e, st)}

evalHashLiteral(node, e, st) ==
    evalHashPairs(node, DOMAIN node.Pairs, <<>>, e, st)

\* The range over node.Pairs with the entries in remaining still to come: it
\* takes any of them next (observed as out of order when an earlier entry is
\* still to come), and pairs[hashed] = object.HashPair{Key: key, Value: value}
\* replaces what an equal key put there.
evalHashPairs(node, remaining, pairs, e, st) ==
    IF remaining = {} THEN {Ret(Hash(pairs), st)}
    ELSE UNION {UNION {
            IF Stops(key.val) THEN {key}
            ELSE IF key.val = NilObj THEN {Ret(Panic(NilDereference), key.st)}
            ELSE IF ~Hashable(key.val)
            THEN {Ret(newError("unusable as hash key: " \o key.val.Type),
                      Use(key.st, "pair", <<key.val>>))}
            ELSE UNION {
                    IF Stops(value.val) THEN {value}
                    ELSE evalHashPairs(node, remaining \ {i},
                             [k \in DOMAIN pairs \cup {HashKey(key.val)} |->
                                 IF k = HashKey(key.val)
                                 THEN HashPair(key.val, value.val)
                                 ELSE pairs[k]],
                             e, Use(value.st, "pair", <<value.val>>))
                    : value \in Eval(node.Pairs[i].Value, e, key.st)}
            : key \in Eval(node.Pairs[i].Key, e,
                            [st EXCEPT !.g.outOfOrder =
                                @ \/ \E j \in remaining : j < i])}
        : i \in remaining}

\* extendFunctionEnv: the arguments are indexed by the parameters' positions,
\* so a parameter without an argument is an index out of range.
extendFunctionEnv(fn, arguments, h) ==
    LET RECURSIVE bind(_, _)
        bind(hp, paramIdx) ==
            IF paramIdx > Len(fn.Parameters) THEN [heap |-> hp, panicked |-> FALSE]
            ELSE IF paramIdx > Len(arguments) THEN [heap |-> hp, panicked |-> TRUE]
            ELSE bind(Set(hp, Len(hp), fn.Parameters[paramIdx].StrValue,
                          arguments[paramIdx]),
                      paramIdx + 1)
    IN bind(NewEnclosedEnvironment(h, fn.Env), 1)

applyFunction(fn, arguments, st) ==
    CASE fn = NilObj -> {Ret(Panic(NilDereference), st)}
      [] fn.Type = object.FUNCTION_OBJ ->
            LET extended    == extendFunctionEnv(fn, arguments, st.heap)
                extendedEnv == Len(extended.heap)
                s == Called([st EXCEPT !.heap = extended.heap], fn, arguments,
                            extendedEnv)
            IN IF extended.panicked THEN {Ret(Panic(IndexOutOfRange), s)}
               ELSE {ActivationEnd(Ret(unwrapReturnValue(evaluated.val), evaluated.st))
                     : evaluated \in Eval(fn.Body, extendedEnv, s)}
      [] fn.Type = object.BUILTIN_OBJ ->
            IF fn.Name = "print" THEN printArgs(arguments, 1, st)
            ELSE {Ret(builtinFunc(fn.Name, arguments), st)}
      [] OTHER -> {Ret(newError("not a function: " \o fn.Type), st)}

(***************************************************************************)
(* The inputs: what a user types at the prompt or keeps in a script.       *)
(***************************************************************************)
ReturnLine ==
    "var f = func(x) { if (x) { if (x) { return 1; } print(\"a\"); } print(\"b\"); 2 }; f(true); var y = f(true); y + 41"
ErrorLine == "var g = func() { nope; print(\"n\") }; [print(\"d\"), g(), print(\"e\")]"
ClosureLine ==
    "var x = 100; var mk = func(x) { func(y) { x + y } }; var addTwo = mk(2); addTwo(40)"
ParseErrorLine == "var z = 9; print(\"p\"); )"
RecursionLine ==
    "var k = 1; var sum = func(n) { if (n < 1) { k } else { n + sum(n - 1) } }; var k = 100; sum(2)"
ShadowLine ==
    "var x = 1; var mk = func(x) { func() { if (true) { var x = x + 10 } x } }; mk(5)() + x"

Inputs ==
    {ReturnLine,
     "if (true) { if (true) { return 3; } print(\"c\"); } 4",
     ErrorLine,
     "var a = 5; a + true; print(\"g\")",
     ClosureLine,
     ParseErrorLine,
     "z",
     "z =",
     "{1: 2, 1: 3}[1]",
     "{1: print(\"h\"), 2: print(\"i\")}",
     "{1: u, 2: 1 + true}",
     "-7 / (2 - 2)",
     "var id = func(a, b) { a }; id(1, 2, 3)",
     "id(1)",
     "var r = if (true) { return 1 }; r + 1",
     "var e = func() { }; 1 + e()",
     "-if (true) { var q = 1 }",
     ShadowLine,
     RecursionLine,
     "var p = 1; p + true; var q = 2",
     "p"}

\* The longest REPL session: the number of lines read.
MaxLines == 2

\* lexer.New, parser.New and ParseProgram of each input.
Parses == [src \in Inputs |-> ParseProgram(ParserNew(LexerNew(src)))]

(***************************************************************************)
(* repl and main                                                           *)
(***************************************************************************)
\* The colours are written as ESC[31m (Red), ESC[33m (Yellow), ESC[37m (Gray)
\* and ESC[0m (Reset), ESC standing for the byte 033.
PROMPT == ">> "

BannerFile == "kev-banner.txt"
ScriptFile == "script.kev"

printParserErrors(errors) ==
    <<"ESC[31m" \o "****** PARSING ERROR ******\n" \o "ESC[0m",
      "ESC[33m" \o "THE FOLLOWING ERRORS OCCURED:\n" \o "ESC[0m">>
    \o [idx \in DOMAIN errors |->
           "ESC[37m" \o ToString(idx) \o ": " \o errors[idx] \o "ESC[0m" \o "\n"]

NoInput ==
    [src |-> "", errors |-> <<>>, ran |-> FALSE, fresh |-> FALSE,
     evaluated |-> NilObj, g |-> NewObservations(NilEnv), alts |-> {}]

\* What an outcome of Eval lets a user see: what is written for the value
\* (or the panic) and what print wrote.
Shown(r) ==
    IF IsPanic(r.val) THEN {[shown |-> "panic: " \o r.val.Message, printed |-> r.st.printed]}
    ELSE IF r.val = NilObj THEN {[shown |-> "", printed |-> r.st.printed]}
    ELSE {[shown |-> IF d.ok THEN d.s \o "\n" ELSE "panic: " \o NilDereference,
           printed |-> r.st.printed] : d \in Inspect(r.val)}

\* The body both drivers share, from lexer.New to the write of the value:
\* src is read with environment e of heap h; after is what follows the
\* input when the process goes on (the next prompt, or nothing).
Run(src, e, h, after, nextPc) ==
    \E parsed \in {Parses[src]} :
    \E errs \in {Errors(parsed.p)} :
       IF parsed.p.l.panicked
       THEN /\ crashed' = IndexOutOfRange
            /\ pc' = "exit" /\ exitCode' = 2
            /\ heap' = h
            /\ last' = [NoInput EXCEPT !.src = src]
            /\ UNCHANGED <<out, printed>>
       ELSE IF Len(errs) # 0
       THEN /\ out' = out \o printParserErrors(errs) \o after
            /\ pc' = nextPc
            /\ exitCode' = IF nextPc = "exit" THEN 0 ELSE exitCode
            /\ heap' = h
            /\ last' = [NoInput EXCEPT !.src = src, !.errors = errs]
            /\ UNCHANGED <<printed, crashed>>
       ELSE \E outcomes \in {Eval(parsed.n, e,
                                  [heap |-> h, printed |-> printed,
                                   g |-> NewObservations(e)])} :
            \E r \in outcomes :
            \E d \in (IF IsPanic(r.val) THEN {[ok |-> TRUE, s |-> ""]}
                      ELSE Inspect(r.val)) :
            \E panic \in {IF IsPanic(r.val) THEN r.val.Message
                          ELSE IF r.val # NilObj /\ ~d.ok THEN NilDereference
                          ELSE NoPanic} :
               /\ heap' = r.st.heap
               /\ printed' = r.st.printed
               /\ last' = [src |-> src, errors |-> errs, ran |-> TRUE,
                           fresh |-> h[e].store = <<>> /\ h[e].outer = NilEnv,
                           evaluated |-> r.val, g |-> r.st.g,
                           alts |-> UNION {Shown(o) : o \in outcomes}]
               /\ crashed' = panic
               /\ IF panic # NoPanic
                  THEN /\ pc' = "exit" /\ exitCode' = 2
                       /\ out' = out
                  ELSE /\ pc' = nextPc
                       /\ exitCode' = IF nextPc = "exit" THEN 0 ELSE exitCode
                       /\ out' = out \o (IF r.val # NilObj THEN <<d.s \o "\n">>
                                         ELSE <<>>) \o after

\* main with no argument: kevBanner, then RunPrompt up to its first Scan.
MainPrompt ==
    /\ pc = "main"
    /\ Len(osArgs) = 0
    /\ IF BannerFile \notin DOMAIN files
       THEN /\ crashed' = "open kev-banner.txt: no such file or directory"
            /\ pc' = "exit" /\ exitCode' = 2
            /\ UNCHANGED <<replEnv, heap, out>>
       ELSE /\ heap' = NewEnvironment(heap)
            /\ replEnv' = Len(heap')
            /\ out' = out \o <<files[BannerFile] \o "\n", PROMPT>>
            /\ pc' = "prompt"
            /\ UNCHANGED <<crashed, exitCode>>
    /\ UNCHANGED <<osArgs, stdin, printed, last, files, unit>>

\* main with arguments that are not run <file>.
MainUsage ==
    /\ pc = "main"
    /\ Len(osArgs) > 0
    /\ osArgs[1] # "run" \/ Len(osArgs) < 2
    /\ out' = Append(out, "Usage: kev run <file>\n")
    /\ pc' = "exit" /\ exitCode' = 1
    /\ UNCHANGED <<osArgs, stdin, replEnv, heap, printed, last, files, crashed, unit>>

\* main with run <file>: RunFile(fileName).
RunFile ==
    /\ pc = "main"
    /\ Len(osArgs) >= 2 /\ osArgs[1] = "run"
    /\ LET fileName == osArgs[2]
       IN IF fileName \notin DOMAIN files
          THEN /\ crashed' = "open " \o fileName \o ": no such file or directory"
               /\ pc' = "exit" /\ exitCode' = 2
               /\ UNCHANGED <<heap, out, printed, last>>
          ELSE Run(files[fileName], Len(heap) + 1, NewEnvironment(heap), <<>>, "exit")
    /\ UNCHANGED <<osArgs, stdin, replEnv, files, unit>>

\* One turn of RunPrompt's loop: a line was scanned.
ReplLine ==
    /\ pc = "prompt"
    /\ Len(stdin) < MaxLines
    /\ \E line \in Inputs :
         /\ stdin' = Append(stdin, line)
         /\ Run(line, replEnv, heap, <<PROMPT>>, "prompt")
    /\ UNCHANGED <<osArgs, replEnv, files, unit>>

\* RunPrompt's Scan found the end of the input.
ReplEOF ==
    /\ pc = "prompt"
    /\ pc' = "exit" /\ exitCode' = 0
    /\ UNCHANGED <<osArgs, stdin, replEnv, heap, out, printed, last, files, crashed, unit>>

\* The working directories a run can tell apart: without arguments the
\* banner file is there or not, and with run <file> the script is there,
\* holding any of the inputs, or not.
Init ==
    /\ pc = "main"
    /\ osArgs \in {<<>>, <<"run">>, <<"help">>, <<"run", ScriptFile>>}
    /\ files \in IF osArgs = <<>> THEN {<<>>, BannerFile :> "KEV"}
                  ELSE IF osArgs = <<"run", ScriptFile>>
                  THEN {<<>>} \cup {ScriptFile :> src : src \in Inputs}
                  ELSE {<<>>}
    /\ stdin = <<>>
    /\ replEnv = NilEnv
    /\ heap = <<>>
    /\ out = <<>>
    /\ printed = <<>>
    /\ last = NoInput
    /\ crashed = NoPanic
    /\ exitCode = -1
    /\ unit = [kind |-> "none"]

Next == MainPrompt \/ MainUsage \/ RunFile \/ ReplLine \/ ReplEOF

Spec == Init /\ [][Next]_vars

(***************************************************************************)
(* The packages used on their own, as their tests use them: a lexer whose  *)
(* NextToken is called again and again, a parser whose ParseProgram is     *)
(* called once, and the evaluator's operators applied to objects.          *)
(***************************************************************************)
\* The longest source text, in bytes.
MaxLen == 3

\* How many calls of NextToken are made beyond one for each byte.
MaxExtraCalls == 2

\* Every source text of at most MaxLen bytes.  The bytes are two letters
\* that spell a keyword, the underscore, a digit, the two bytes that may
\* start a two-byte token, the quote, a delimiter, a bracket, a byte no
\* token starts with, a space and the byte 0.
Texts ==
    {JoinStrings(s, "") :
        s \in UNION {[1..n -> {"i", "f", "_", "1", "=", "!", "\"", ";", "[", "@",
                               " ", NUL}] : n \in 0..MaxLen}}

\* tok := l.NextToken(), as lexer_test.go calls it in a loop.  A token is
\* kept with the offsets it was read from: from is where eatWhitespace
\* stopped, to is l.position when NextToken returns.  A call that panics
\* returns no token.
CallNextToken ==
    /\ unit.kind = "lexer"
    /\ ~unit.l.panicked
    /\ Len(unit.toks) < Len(unit.l.input) + MaxExtraCalls
    /\ \E r \in {NextToken(unit.l)} :
          unit' = [unit EXCEPT
                     !.l = r.l,
                     !.toks = IF r.l.panicked THEN @
                              ELSE Append(@, [tok |-> r.tok,
                                              from |-> eatWhitespace(unit.l).position,
                                              to |-> r.l.position])]
    /\ UNCHANGED <<pc, osArgs, stdin, replEnv, heap, out, printed, last, files,
                   crashed, exitCode>>

\* The most operands an expression is written with.
MaxOperands == 3

\* An expression without parentheses: the operands a, b, c, ... in this
\* order, each bare or under one prefix operator, with a binary operator
\* between neighbours.  An expression is the sequence of its words, which
\* the source text separates by spaces.
Expression(prefixes, operators) ==
    [k \in 1 .. (2 * Len(prefixes) - 1) |->
        IF k % 2 = 1
        THEN prefixes[(k + 1) \div 2] \o <<"a", "b", "c", "d", "e">>[(k + 1) \div 2]
        ELSE operators[k \div 2]]

\* program := p.ParseProgram(), once, on the parser New made.
CallParseProgram ==
    /\ unit.kind = "parser"
    /\ ~unit.done
    /\ \E r \in {ParseProgram(unit.p)} :
          unit' = [unit EXCEPT !.done = TRUE, !.program = r.n, !.p = r.p]
    /\ UNCHANGED <<pc, osArgs, stdin, replEnv, heap, out, printed, last, files,
                   crashed, exitCode>>

\* The objects the operators are applied to: some of every type a value
\* can have.
Values ==
    {Integer(-1), Integer(0), Integer(1), Integer(2), TRUE_OBJ, FALSE_OBJ, NULL,
     String(""), String("a"),
     Array(<<>>), Array(<<Integer(7), String("a")>>),
     Hash(<<>>),
     Hash(HashKey(Integer(1)) :> HashPair(Integer(1), String("one"))),
     Hash((HashKey(Integer(1)) :> HashPair(Integer(1), String("one")))
          @@ (HashKey(TRUE_OBJ) :> HashPair(TRUE_OBJ, String("yes")))
          @@ (HashKey(String("a")) :> HashPair(String("a"), Integer(3)))),
     Function(<<>>, [node |-> "BlockStatement", Statements |-> <<>>], 1),
     Builtin("len")}

\* evalInfixExpression(operator, left, right), as Eval calls it once both
\* operands are evaluated.
ApplyInfix ==
    /\ unit.kind = "infix"
    /\ ~unit.done
    /\ unit' = [unit EXCEPT
                  !.done = TRUE,
                  !.result = evalInfixExpression(unit.operator, unit.left, unit.right)]
    /\ UNCHANGED <<pc, osArgs, stdin, replEnv, heap, out, printed, last, files,
                   crashed, exitCode>>

\* evalIndexExpression(left, index), as Eval calls it once both are
\* evaluated.
ApplyIndex ==
    /\ unit.kind = "index"
    /\ ~unit.done
    /\ unit' = [unit EXCEPT
                  !.done = TRUE,
                  !.result = evalIndexExpression(unit.left, unit.right)]
    /\ UNCHANGED <<pc, osArgs, stdin, replEnv, heap, out, printed, last, files,
                   crashed, exitCode>>

\* Eval of !!v and of if (v) { 1 } else { 2 } in an environment that binds
\* v to the object; each field holds the values Eval can return.
EvalTruthiness ==
    /\ unit.kind = "truthiness"
    /\ ~unit.done
    /\ \E st \in {[heap |-> Set(NewEnvironment(<<>>), 1, "v", unit.obj),
                    printed |-> <<>>, g |-> NewObservations(1)]} :
          unit' = [unit EXCEPT
                     !.done = TRUE,
                     !.bangBang =
                        {r.val : r \in
                            Eval([node |-> "PrefixExpression", Operator |-> "!",
                                  Right |-> [node |-> "PrefixExpression",
                                             Operator |-> "!",
                                             Right |-> [node |-> "Identifier",
                                                        StrValue |-> "v"]]],
                                 1, st)},
                     !.branch =
                        {r.val : r \in
                            Eval([node |-> "IfExpression",
                                  Condition |-> [node |-> "Identifier", StrValue |-> "v"],
                                  Consequence |->
                                     [node |-> "BlockStatement",
                                      Statements |->
                                         <<[node |-> "ExpressionStatement",
                                            Expression |-> [node |-> "IntegerLiteral",
                                                            IntValue |-> 1]]>>],
                                  Alternative |->
                                     [node |-> "BlockStatement",
                                      Statements |->
                                         <<[node |-> "ExpressionStatement",
                                            Expression |-> [node |-> "IntegerLiteral",
                                                            IntValue |-> 2]]>>]],
                                 1, st)}]
    /\ UNCHANGED <<pc, osArgs, stdin, replEnv, heap, out, printed, last, files,
                   crashed, exitCode>>

\* The most elements of an array a builtin is applied to.
MaxElements == 2

\* builtins["tail"].Func and builtins["push"].Func on an Array, at the level
\* of Go's slices.  mem holds the backing arrays made so far; a slice is the
\* backing array it points into, the offset of its first element, its len
\* and its cap; arr is args[0].Elements and v is args[1].  Each step writes
\* to mem the way make, copy and the assignment of an element do.
builtinElementsInPlace(name, mem, arr, v) ==
    LET length == arr.len
        from   == IF name = "tail"
                  THEN [arr EXCEPT !.off = @ + 1, !.len = length - 1, !.cap = @ - 1]
                  ELSE arr
        dst    == IF name = "tail" THEN [arr EXCEPT !.len = length - 1]
                  ELSE [arr EXCEPT !.len = length + 1]
        grown  == IF name = "push" /\ arr.cap = arr.len
                  THEN [mem EXCEPT ![arr.array] = Append(@, NilObj)]
                  ELSE mem
        copied == [grown EXCEPT ![dst.array] =
                     [i \in 1 .. Len(@) |->
                         IF name = "tail" /\ dst.off < i /\ i <= dst.off + from.len
                         THEN grown[from.array][from.off + i - dst.off]
                         ELSE @[i]]]
        stored == IF name = "push"
                  THEN [copied EXCEPT ![dst.array][dst.off + length + 1] = v]
                  ELSE copied
    IN IF name = "tail" /\ length = 0
       THEN [mem |-> mem, arr |-> arr, result |-> NULL]
       ELSE [mem |-> stored, arr |-> arr,
             result |-> [Type |-> object.ARRAY_OBJ, Slice |-> dst]]

builtinElements(name, mem, arr, v) ==
    LET length == arr.len
        \* arr.Elements[1:length] for tail, arr.Elements for push
        from   == IF name = "tail"
                  THEN [arr EXCEPT !.off = @ + 1, !.len = length - 1, !.cap = @ - 1]
                  ELSE arr
        \* newElements := make([]object.Object, n)
        n      == IF name = "tail" THEN length - 1 ELSE length + 1
        made   == Append(mem, [i \in 1 .. n |-> NilObj])
        dst    == [array |-> Len(made), off |-> 0, len |-> n, cap |-> n]
        \* copy(newElements, from)
        count  == IF from.len < dst.len THEN from.len ELSE dst.len
        copied == [made EXCEPT ![dst.array] =
                     [i \in 1 .. Len(@) |->
                         IF dst.off < i /\ i <= dst.off + count
                         THEN made[from.array][from.off + i - dst.off]
                         ELSE @[i]]]
        \* newElements[length] = args[1]
        stored == IF name = "push"
                  THEN [copied EXCEPT ![dst.array][dst.off + length + 1] = v]
                  ELSE copied
    IN IF name = "tail" /\ length = 0
       THEN [mem |-> mem, arr |-> arr, result |-> NULL]
       ELSE [mem |-> stored, arr |-> arr,
             result |-> [Type |-> object.ARRAY_OBJ, Slice |-> dst]]

\* builtins[name].Func(args...), as applyFunction calls it, for tail and
\* push with an Array as first argument.
ApplyBuiltin ==
    /\ unit.kind = "builtin"
    /\ ~unit.done
    /\ \E r \in {builtinElements(unit.name, unit.mem, unit.arr, unit.v)} :
          unit' = [unit EXCEPT !.done = TRUE, !.mem = r.mem, !.arr = r.arr,
                               !.result = r.result]
    /\ UNCHANGED <<pc, osArgs, stdin, replEnv, heap, out, printed, last, files,
                   crashed, exitCode>>

UnitInit ==
    /\ pc = "main"
    /\ osArgs = <<>>
    /\ files = <<>>
    /\ stdin = <<>>
    /\ replEnv = NilEnv
    /\ heap = <<>>
    /\ out = <<>>
    /\ printed = <<>>
    /\ last = NoInput
    /\ crashed = NoPanic
    /\ exitCode = -1
    /\ \/ \E text \in Texts :
             unit = [kind |-> "lexer", l |-> LexerNew(text), toks |-> <<>>]
       \/ \E text \in Texts :
             unit = [kind |-> "parser", words |-> <<text>>,
                     p |-> ParserNew(LexerNew(text)),
                     program |-> NilNode, done |-> FALSE]
       \/ \E text \in {"var 1", "var x 1", "var x = 1", "var = 1; x",
                        "func() { var 1 }", "if (x) { var x 1 } else { var y = 2 }",
                        "func(a, b) { a }", "func() { }", "func(a) { }",
                        "func(1, 2) { }", "func(if) { }", "func(\"s\") { }",
                        "func(a,) { }", "func(a b) { }", "func(a,, b) { }",
                        "{}", "{1: 2}", "{1: 2, 3: 4}", "{1: 2,}", "{1: 2,,}",
                        "{1: 2 3: 4}", "{1 2}",
                        "0", "7", "10", "19", "00", "007", "010", "08", "090"} :
             unit = [kind |-> "parser", words |-> <<text>>,
                     p |-> ParserNew(LexerNew(text)),
                     program |-> NilNode, done |-> FALSE]
       \/ \E n \in 2 .. MaxOperands :
          \E prefixes \in [1 .. n -> {"", "-", "!"}] :
          \E operators \in [1 .. (n - 1) ->
                               {"==", "!=", "<", ">", "+", "-", "*", "/"}] :
          \E words \in {Expression(prefixes, operators)} :
             unit = [kind |-> "parser", words |-> words,
                     p |-> ParserNew(LexerNew(JoinStrings(words, " "))),
                     program |-> NilNode, done |-> FALSE]
       \/ \E operator \in {"+", "-", "*", "/", "<", ">", "==", "!="} :
          \E left \in Values : \E right \in Values :
             unit = [kind |-> "infix", operator |-> operator, left |-> left,
                     right |-> right, result |-> NilObj, done |-> FALSE]
       \/ \E left \in Values : \E index \in Values :
             unit = [kind |-> "index", left |-> left, right |-> index,
                     result |-> NilObj, done |-> FALSE]
       \/ \E obj \in Values :
             unit = [kind |-> "truthiness", obj |-> obj, bangBang |-> {},
                     branch |-> {}, done |-> FALSE]
       \/ \E name \in {"tail", "push"} :
          \E v \in Values :
          \E length \in 0 .. MaxElements :
          \E elements \in [1 .. length -> {Integer(1), String("a")}] :
          \E spare \in {<<>>, <<NilObj>>} :
             unit = [kind |-> "builtin", name |-> name, v |-> v,
                     before |-> <<elements \o spare>>,
                     mem |-> <<elements \o spare>>,
                     arr |-> [array |-> 1, off |-> 0, len |-> length,
                              cap |-> length + Len(spare)],
                     result |-> NilObj, done |-> FALSE]

UnitNext ==
    \/ CallNextToken \/ CallParseProgram \/ ApplyInfix \/ ApplyIndex
    \/ EvalTruthiness \/ ApplyBuiltin

UnitSpec == UnitInit /\ [][UnitNext]_vars

(***************************************************************************)
(* The properties.  last is the record of the input read last: its source, *)
(* the parser's log, whether Eval ran, the value Eval returned, and the    *)
(* observations g made during that evaluation.                             *)
(***************************************************************************)
\* C1: a return inside nested if-blocks used as statements (no ReturnValue
\* was taken as a value: leaks is empty) ends every enclosing block, so no
\* statement of its activation runs after it; the value of the call, or of
\* the program, is the value returned; and no loop of a caller or of the
\* program stops on a ReturnValue that its own activation did not make.
C1_ReturnPropagation ==
    (last.ran /\ last.g.leaks = {}) =>
        /\ ~last.g.stmtAfterReturn
        /\ ~last.g.retLost
        /\ ~last.g.spuriousReturn

\* The return of f ran two if-blocks deep, print("a"), print("b") and the
\* trailing 2 were skipped, and the caller went on to compute y + 41.
C1_Witness ==
    /\ last.src = ReturnLine
    /\ last.g.leaks = {}
    /\ last.g.retDepth >= 3
    /\ last.g.resumed
    /\ last.evaluated = Integer(42)
    /\ printed = <<>>

\* C2: once an Eval has returned an Error, no other Eval starts, every Eval
\* still in progress returns that same Error, through calls too, and it is
\* the value of the program.
C2_ErrorShortCircuit ==
    (last.ran /\ last.g.firstErr # NilObj) =>
        /\ ~last.g.afterErr
        /\ ~last.g.errLost
        /\ last.evaluated = last.g.firstErr
        /\ crashed = NoPanic

\* The Error of nope inside g left g's body, the call and the array: neither
\* print("n") nor print("e") ran, and print("d") before it did.
C2_Witness ==
    /\ last.src = ErrorLine
    /\ last.evaluated = Error("identifier not found: nope")
    /\ printed = <<"d">>
    /\ Len(stdin) = 1

\* C3: every call of a Function runs its body in a new environment whose
\* outer is the environment the Function captured, and the closure made by
\* mk(2) answers 42 for 40 although the caller binds x to 100.
C3_LexicalScoping ==
    /\ last.ran => \A c \in last.g.calls : c.outer = c.captured
    /\ (last.src = ClosureLine /\ last.ran) => last.evaluated = Integer(42)

\* addTwo was called from the global environment, after mk had returned,
\* with an environment it captured inside mk.
C3_Witness ==
    /\ last.src = ClosureLine
    /\ last.evaluated = Integer(42)
    /\ \E c \in last.g.calls : c.captured # c.caller /\ c.outer = c.captured
    /\ replEnv # NilEnv
    /\ Get(heap, replEnv, "x") = [obj |-> Integer(100), ok |-> TRUE]

\* C4: whenever a driver has read an input and ParseProgram has returned,
\* Eval runs if and only if the parser's log is empty; with a log that is
\* not empty nothing is printed by the program, and every environment is
\* as it was (the file runner's new environment is empty).
C4_EvalIffLogEmpty ==
    [][((stdin' # stdin \/ last' # last) /\ ~Parses[last'.src].p.l.panicked) =>
          /\ last'.ran <=> (Len(Parses[last'.src].p.errors) = 0)
          /\ Len(Parses[last'.src].p.errors) # 0 =>
                /\ printed' = printed
                /\ replEnv' = replEnv
                /\ \A e \in DOMAIN heap : heap'[e] = heap[e]
                /\ \A e \in DOMAIN heap' \ DOMAIN heap :
                        DOMAIN heap'[e].store = {}]_vars

\* The second line of a session did not parse: it was not evaluated, though
\* its first two statements are well formed, and the binding the first line
\* made is still the only one.
C4_Witness ==
    /\ Len(stdin) = 2
    /\ stdin[1] = ClosureLine
    /\ last.src = ParseErrorLine
    /\ Len(last.errors) > 0
    /\ ~last.ran
    /\ printed = <<>>
    /\ DOMAIN heap[replEnv].store = {"x", "mk", "addTwo"}
    /\ pc = "prompt"

\* C5: an input evaluated in an empty environment has one outcome: one
\* display of its value and one sequence of print outputs.
C5_Deterministic ==
    (last.ran /\ last.fresh) => Cardinality(last.alts) = 1

\* C6: the pairs of a hash literal are evaluated in the order written: no
\* pair is taken while one written before it is still to come.
C6_SourceOrder ==
    last.ran => ~last.g.outOfOrder

\* C7: an Integer divided by 0 yields an Error and no panic.
C7_DivisionByZeroIsError ==
    (last.src # "" /\ last.g.divZero) =>
        /\ crashed = NoPanic
        /\ last.evaluated.Type = object.ERROR_OBJ

\* C8: a Function called with another number of arguments than it has
\* parameters yields an Error and no panic.
C8_ArityMismatchIsError ==
    (last.src # "" /\ last.g.arity) =>
        /\ crashed = NoPanic
        /\ last.evaluated.Type = object.ERROR_OBJ

\* C9: no ReturnValue and no Error is bound in an environment, and none was
\* taken as a binding, an operand, a condition, an argument, an element or
\* a hash pair.
C9_NoMarkerAsValue ==
    /\ last.g.leaks = {}
    /\ \A e \in DOMAIN heap : \A name \in DOMAIN heap[e].store :
            ~IsMarker(heap[e].store[name])

\* C10: no expression node evaluates to nil, and no nil Object is
\* dereferenced.
C10_NoNilValue ==
    /\ ~last.g.nilExpr
    /\ crashed # NilDereference

(***************************************************************************)
(* The lexer on its own.  unit.toks holds the tokens NextToken returned,   *)
(* in order, each with the offsets of the input it was read from.          *)
(***************************************************************************)
\* C12: once NextToken has returned EOF, every later call returns EOF with
\* an empty lexeme: no token that is not EOF follows an EOF token.
C12_EOFIsAbsorbing ==
    unit.kind = "lexer" =>
        \A i \in DOMAIN unit.toks : \A j \in DOMAIN unit.toks :
            i < j /\ unit.toks[i].tok.Type = token.EOF
                => unit.toks[j].tok = Token(token.EOF, "")

\* C13: peekChar never reads outside the input, so no call of NextToken
\* panics; and a = or ! that is the last byte of the input is read as
\* ASSIGN or BANG, with EOF after it.
C13_PeekCharInBounds ==
    unit.kind = "lexer" =>
        /\ ~unit.l.panicked
        /\ \A i \in DOMAIN unit.toks :
              \E t \in {unit.toks[i]} :
                 t.from = Len(unit.l.input) - 1
                 /\ ByteAt(unit.l.input, t.from) \in {"=", "!"}
                 => /\ t.tok = Token(IF ByteAt(unit.l.input, t.from) = "="
                                     THEN token.ASSIGN ELSE token.BANG,
                                     ByteAt(unit.l.input, t.from))
                    /\ i + 1 \in DOMAIN unit.toks
                          => unit.toks[i + 1].tok = Token(token.EOF, "")

\* C14: a token that starts at a letter or underscore is the whole maximal
\* run of letters and underscores from there, as one token: it starts where
\* no letter comes before, ends at the first byte that is none (a digit
\* ends it, and is read as an INT next), its lexeme is the run, and its kind
\* is the keyword's when the run is exactly func, var, if, else, return,
\* true or false and IDENT otherwise; only such tokens have these kinds.
\* == and != are each one token of two bytes.
C14_MaximalMunch ==
    unit.kind = "lexer" =>
        \A i \in DOMAIN unit.toks :
        \E t \in {unit.toks[i]} :
        \E first \in {IF t.from < Len(unit.l.input)
                      THEN ByteAt(unit.l.input, t.from) ELSE ""} :
           /\ (first \in {"a","b","c","d","e","f","g","h","i","j","k","l","m",
                          "n","o","p","q","r","s","t","u","v","w","x","y","z",
                          "A","B","C","D","E","F","G","H","I","J","K","L","M",
                          "N","O","P","Q","R","S","T","U","V","W","X","Y","Z","_"})
                 <=> t.tok.Type \in {token.IDENT, token.FUNCTION, token.VAR,
                                     token.IF_T, token.ELSE_T, token.RETURN,
                                     token.TRUE_T, token.FALSE_T}
           /\ isLetter(first) =>
                 /\ t.to > t.from /\ t.to <= Len(unit.l.input)
                 /\ \A k \in t.from .. (t.to - 1) : isLetter(ByteAt(unit.l.input, k))
                 /\ t.from = 0 \/ ~isLetter(ByteAt(unit.l.input, t.from - 1))
                 /\ t.to = Len(unit.l.input) \/ ~isLetter(ByteAt(unit.l.input, t.to))
                 /\ t.tok.Literal = Slice(unit.l.input, t.from, t.to)
                 /\ t.tok.Type =
                       (CASE t.tok.Literal = "func"   -> token.FUNCTION
                          [] t.tok.Literal = "var"    -> token.VAR
                          [] t.tok.Literal = "if"     -> token.IF_T
                          [] t.tok.Literal = "else"   -> token.ELSE_T
                          [] t.tok.Literal = "return" -> token.RETURN
                          [] t.tok.Literal = "true"   -> token.TRUE_T
                          [] t.tok.Literal = "false"  -> token.FALSE_T
                          [] OTHER -> token.IDENT)
                 /\ (t.to < Len(unit.l.input) /\ isDigit(ByteAt(unit.l.input, t.to))
                     /\ i + 1 \in DOMAIN unit.toks)
                       => /\ unit.toks[i + 1].from = t.to
                          /\ unit.toks[i + 1].tok.Type = token.INT
           /\ (first \in {"=", "!"} /\ t.from + 1 < Len(unit.l.input)
                /\ ByteAt(unit.l.input, t.from + 1) = "=")
                 => /\ t.tok = Token(IF first = "=" THEN token.EQ ELSE token.NE,
                                     first \o "=")
                    /\ t.to = t.from + 2

\* The input if1 gave the keyword if and then the number 1.
C14_Witness ==
    /\ unit.kind = "lexer"
    /\ unit.l.input = "if1"
    /\ Len(unit.toks) = 2
    /\ unit.toks[1].tok = Token(token.IF_T, "if")
    /\ unit.toks[2].tok = Token(token.INT, "1")

\* C15: a token that starts at a double quote is one STRING token.  Its
\* lexeme is the bytes strictly between that quote and the next one, taken
\* as they are, and the next token starts after the closing quote; with no
\* closing quote the lexeme is every byte that remains and the next token is
\* EOF.
C15_StringLexeme ==
    unit.kind = "lexer" =>
        \A i \in DOMAIN unit.toks :
        \E t \in {unit.toks[i]} :
        \E closes \in {{k \in (t.from + 1) .. (Len(unit.l.input) - 1) :
                            ByteAt(unit.l.input, k) = "\""}} :
           (t.from < Len(unit.l.input) /\ ByteAt(unit.l.input, t.from) = "\"")
           => /\ t.tok.Type = STRING_T
              /\ IF closes # {}
                 THEN \E close \in {CHOOSE k \in closes : \A m \in closes : k <= m} :
                         /\ t.tok.Literal = Slice(unit.l.input, t.from + 1, close)
                         /\ t.to = close + 1
                 ELSE /\ t.tok.Literal =
                            Slice(unit.l.input, t.from + 1, Len(unit.l.input))
                      /\ i + 1 \in DOMAIN unit.toks
                            => unit.toks[i + 1].tok = Token(token.EOF, "")

\* C16: each of the bytes = , ; ( ) { } [ ] : + - ! * / < > that does not
\* start == or != is read as a token of the kind named after it whose lexeme
\* is that byte, so NextToken neither panics on it nor calls it ILLEGAL; an
\* ILLEGAL token is only made of a byte that is no whitespace, letter,
\* underscore, digit or quote and none of these.
C16_PunctuationKinds ==
    unit.kind = "lexer" =>
        /\ unit.l.panicked =>
              ByteAt(unit.l.input, unit.l.position)
                 \notin {"=", ",", ";", "(", ")", "{", "}", "[", "]", ":",
                         "+", "-", "!", "*", "/", "<", ">"}
        /\ \A i \in DOMAIN unit.toks :
           \E t \in {unit.toks[i]} :
           \E first \in {IF t.from < Len(unit.l.input)
                         THEN ByteAt(unit.l.input, t.from) ELSE ""} :
              /\ (/\ first \in {"=", ",", ";", "(", ")", "{", "}", "[", "]", ":",
                                 "+", "-", "!", "*", "/", "<", ">"}
                  /\ ~(first \in {"=", "!"} /\ t.from + 1 < Len(unit.l.input)
                       /\ ByteAt(unit.l.input, t.from + 1) = "="))
                   => /\ t.tok.Literal = first
                      /\ t.to = t.from + 1
                      /\ t.tok.Type =
                            (CASE first = "=" -> token.ASSIGN
                               [] first = "," -> token.COMMA
                               [] first = ";" -> token.SEMICOLON
                               [] first = "(" -> token.LPAREN
                               [] first = ")" -> token.RPAREN
                               [] first = "{" -> token.LBRACE
                               [] first = "}" -> token.RBRACE
                               [] first = "[" -> LBRACKET
                               [] first = "]" -> RBRACKET
                               [] first = ":" -> COLON
                               [] first = "+" -> token.PLUS
                               [] first = "-" -> token.MINUS
                               [] first = "!" -> token.BANG
                               [] first = "*" -> token.ASTERISK
                               [] first = "/" -> token.SLASH
                               [] first = "<" -> token.LT
                               [] first = ">" -> token.GT)
              /\ t.tok.Type = token.ILLEGAL
                   => /\ t.from < Len(unit.l.input)
                      /\ t.tok.Literal = first
                      /\ first \notin {" ", "\t", "\n", "\r", "\"", "_"}
                      /\ ~isLetter(first) /\ ~isDigit(first)
                      /\ first \notin {"=", ",", ";", "(", ")", "{", "}", "[", "]",
                                        ":", "+", "-", "!", "*", "/", "<", ">"}

(***************************************************************************)
(* The parser on its own.  unit.words is the source as written, unit.p the *)
(* parser and unit.program what ParseProgram returned once unit.done.      *)
(***************************************************************************)
\* The rung of a binary operator on the ladder: == and != lowest, then <
\* and >, then + and -, then * and /.
Rung(operator) ==
    CASE operator \in {"==", "!="} -> 1
      [] operator \in {"<", ">"}   -> 2
      [] operator \in {"+", "-"}   -> 3
      [] operator \in {"*", "/"}   -> 4

\* The tree of an operand: a name, or a prefix operator over a name.
OperandTree(word) ==
    IF Len(word) = 1 THEN [node |-> "Identifier", StrValue |-> word]
    ELSE [node |-> "PrefixExpression", Operator |-> SubSeq(word, 1, 1),
          Right |-> [node |-> "Identifier", StrValue |-> SubSeq(word, 2, 2)]]

\* The tree the ladder gives an expression: it is split at the last of its
\* operators of the lowest rung, so that higher rungs bind tighter, equal
\* rungs group to the left and a prefix operator stays with its operand.
RECURSIVE LadderTree(_)
LadderTree(words) ==
    IF Len(words) = 1 THEN OperandTree(words[1])
    ELSE The({[node |-> "InfixExpression", Operator |-> words[k],
               Left |-> LadderTree(SubSeq(words, 1, k - 1)),
               Right |-> LadderTree(SubSeq(words, k + 1, Len(words)))]
              : k \in {CHOOSE k \in DOMAIN words :
                          /\ k % 2 = 0
                          /\ \A m \in DOMAIN words :
                                m % 2 = 0 =>
                                   \/ Rung(words[k]) < Rung(words[m])
                                   \/ Rung(words[k]) = Rung(words[m]) /\ m <= k}})

\* C17: ParseProgram, through parseExpression(LOWEST), gives an expression
\* without parentheses the tree of the precedence ladder: an operator of a
\* higher rung binds tighter, operators of one rung group to the left, and a
\* prefix operator binds tighter than every binary one.
C17_PrecedenceLadder ==
    (unit.kind = "parser" /\ unit.done /\ Len(unit.words) > 1) =>
        /\ unit.p.errors = <<>>
        /\ unit.program =
              [node |-> "Program",
               Statements |-> <<[node |-> "ExpressionStatement",
                                 Expression |-> LadderTree(unit.words)]>>]

\* -a * b - c was parsed: the prefix operator stayed with a, the product
\* was made first and is the left operand of the difference.
C17_Witness ==
    /\ unit.kind = "parser"
    /\ unit.done
    /\ unit.words = <<"-a", "*", "b", "-", "c">>
    /\ unit.program.Statements[1].Expression =
          [node |-> "InfixExpression", Operator |-> "-",
           Left |-> [node |-> "InfixExpression", Operator |-> "*",
                     Left |-> [node |-> "PrefixExpression", Operator |-> "-",
                               Right |-> [node |-> "Identifier", StrValue |-> "a"]],
                     Right |-> [node |-> "Identifier", StrValue |-> "b"]],
           Right |-> [node |-> "Identifier", StrValue |-> "c"]]

\* C18: on every input New and ParseProgram end without a panic, and
\* ParseProgram returns with the current token EOF and the whole input
\* read: the lexer is at the end of the input and no token is left to
\* come.  What is malformed only adds to the error log.
C18_ParserTerminates ==
    unit.kind = "parser" =>
        /\ ~unit.p.l.panicked
        /\ unit.done =>
              /\ unit.p.currentToken = Token(token.EOF, "")
              /\ unit.p.peekToken = Token(token.EOF, "")
              /\ unit.p.l.position >= Len(unit.p.l.input)

(***************************************************************************)
(* The evaluator's operators on their own.                                 *)
(***************************************************************************)
\* C11: only Null and the Boolean false are falsy.  !!v is the Boolean true
\* exactly when v is truthy (so for the integer 0 and for the empty string,
\* array and hash), and an if-expression whose condition is v takes its
\* consequence exactly when v is truthy, its alternative otherwise.
C11_Truthiness ==
    (unit.kind = "truthiness" /\ unit.done) =>
        \E truthy \in {~(\/ unit.obj.Type = object.NULL_OBJ
                         \/ unit.obj.Type = object.BOOLEAN_OBJ /\ ~unit.obj.BoolValue)} :
           /\ unit.bangBang = {Boolean(truthy)}
           /\ unit.branch = {IF truthy THEN Integer(1) ELSE Integer(2)}

\* The integer 0 was the operand: !!0 gave true and the consequence was
\* taken.
C11_Witness ==
    /\ unit.kind = "truthiness"
    /\ unit.done
    /\ unit.obj = Integer(0)
    /\ unit.bangBang = {TRUE_OBJ}
    /\ unit.branch = {Integer(1)}

\* C19: evalInfixExpression follows the table, for operands of every type
\* and each of the eight operators.  Two Integers give an Integer for + - *
\* and / and a Boolean for < > == and !=.  Two Booleans give a Boolean for
\* == and !=, two Strings their concatenation for + and a Boolean for ==
\* and !=; for any other operator, and for any other pair of one type, the
\* value is the Error unknown operator: <type> <operator> <type>.  Operands
\* of different types give the Error type mismatch: <left type> <operator>
\* <right type>.
C19_InfixTable ==
    (unit.kind = "infix" /\ unit.done) =>
        \E lt \in {unit.left.Type} : \E rt \in {unit.right.Type} :
        \E unknown \in {Error("unknown operator: " \o lt \o " " \o unit.operator
                               \o " " \o rt)} :
           IF lt # rt
           THEN unit.result = Error("type mismatch: " \o lt \o " " \o unit.operator
                                    \o " " \o rt)
           ELSE IF lt = object.INTEGER_OBJ
           THEN CASE unit.operator = "+" ->
                        unit.result = Integer(unit.left.IntValue + unit.right.IntValue)
                  [] unit.operator = "-" ->
                        unit.result = Integer(unit.left.IntValue - unit.right.IntValue)
                  [] unit.operator = "*" ->
                        unit.result = Integer(unit.left.IntValue * unit.right.IntValue)
                  [] unit.operator = "/" ->
                        unit.result.Type = object.INTEGER_OBJ
                  [] unit.operator = "<" ->
                        unit.result = Boolean(unit.left.IntValue < unit.right.IntValue)
                  [] unit.operator = ">" ->
                        unit.result = Boolean(unit.left.IntValue > unit.right.IntValue)
                  [] unit.operator = "==" ->
                        unit.result = Boolean(unit.left.IntValue = unit.right.IntValue)
                  [] unit.operator = "!=" ->
                        unit.result = Boolean(unit.left.IntValue # unit.right.IntValue)
           ELSE IF lt = object.BOOLEAN_OBJ
           THEN CASE unit.operator = "==" ->
                        unit.result = Boolean(unit.left.BoolValue = unit.right.BoolValue)
                  [] unit.operator = "!=" ->
                        unit.result = Boolean(unit.left.BoolValue # unit.right.BoolValue)
                  [] OTHER -> unit.result = unknown
           ELSE IF lt = object.STRING_OBJ
           THEN CASE unit.operator = "+" ->
                        unit.result = String(unit.left.StrValue \o unit.right.StrValue)
                  [] unit.operator = "==" ->
                        unit.result = Boolean(unit.left.StrValue = unit.right.StrValue)
                  [] unit.operator = "!=" ->
                        unit.result = Boolean(unit.left.StrValue # unit.right.StrValue)
                  [] OTHER -> unit.result = unknown
           ELSE unit.result = unknown

\* C20: evalIndexExpression follows the table.  An Array with an Integer i
\* gives its element i when 0 <= i < len and Null otherwise, so for every
\* negative i.  A Hash with an Integer, Boolean or String gives the value
\* stored under the equal key of the same type and Null when there is none
\* (1 and true are different keys); a Hash with any other index gives the
\* Error unusable as hash key: <type of the index>.  In every other case the
\* value is the Error index operator not supported: <type of the receiver>.
C20_IndexTable ==
    (unit.kind = "index" /\ unit.done) =>
        IF unit.left.Type = object.ARRAY_OBJ /\ unit.right.Type = object.INTEGER_OBJ
        THEN unit.result =
                IF 0 <= unit.right.IntValue
                   /\ unit.right.IntValue < Len(unit.left.Elements)
                THEN unit.left.Elements[unit.right.IntValue + 1]
                ELSE NULL
        ELSE IF unit.left.Type = object.HASH_OBJ
        THEN IF unit.right.Type \in {object.INTEGER_OBJ, object.BOOLEAN_OBJ,
                                     object.STRING_OBJ}
             THEN \E stored \in {{k \in DOMAIN unit.left.Pairs :
                                      unit.left.Pairs[k].Key = unit.right}} :
                     IF stored = {} THEN unit.result = NULL
                     ELSE \A k \in stored : unit.result = unit.left.Pairs[k].Value
             ELSE unit.result = Error("unusable as hash key: " \o unit.right.Type)
        ELSE unit.result = Error("index operator not supported: " \o unit.left.Type)

\* A hash with the one key 1 was indexed by true, and gave Null.
C20_Witness ==
    /\ unit.kind = "index"
    /\ unit.done
    /\ unit.left = Hash(HashKey(Integer(1)) :> HashPair(Integer(1), String("one")))
    /\ unit.right = TRUE_OBJ
    /\ unit.result = NULL

\* The elements a slice shows in a memory.
ElementsOf(mem, slice) == [i \in 1 .. slice.len |-> mem[slice.array][slice.off + i]]

\* C21: push and tail never modify their argument: after the call the
\* array that was passed has the length and the elements it had.  push
\* returns a new Array of one element more, the argument's elements
\* followed by v; tail returns a new Array of the argument's elements from
\* index 1 on, or Null when the argument is empty.  The values are those
\* of the builtins on values.
C21_PushTailFrame ==
    (unit.kind = "builtin" /\ unit.done) =>
        \E old \in {ElementsOf(unit.before, [array |-> 1, off |-> 0,
                                             len |-> unit.arr.len,
                                             cap |-> unit.arr.cap])} :
           /\ unit.arr.array = 1 /\ unit.arr.off = 0
           /\ ElementsOf(unit.mem, unit.arr) = old
           /\ Len(unit.mem[1]) = Len(unit.before[1])
           /\ \A i \in 1 .. Len(unit.before[1]) : unit.mem[1][i] = unit.before[1][i]
           /\ IF unit.name = "tail" /\ old = <<>>
              THEN unit.result = NULL
              ELSE /\ unit.result.Type = object.ARRAY_OBJ
                   /\ unit.result.Slice.array # unit.arr.array
                   /\ ElementsOf(unit.mem, unit.result.Slice) =
                         IF unit.name = "tail" THEN Tail(old) ELSE Append(old, unit.v)
           /\ \E value \in {builtinFunc(unit.name,
                                         IF unit.name = "tail" THEN <<Array(old)>>
                                         ELSE <<Array(old), unit.v>>)} :
                 IF unit.result = NULL THEN value = NULL
                 ELSE value = Array(ElementsOf(unit.mem, unit.result.Slice))

\* push was applied to an array of two elements whose backing array had
\* room for a third, and returned the three elements in a new array.
C21_Witness ==
    /\ unit.kind = "builtin"
    /\ unit.done
    /\ unit.name = "push"
    /\ unit.arr.len = 2 /\ unit.arr.cap = 3
    /\ unit.v = Integer(2)
    /\ ElementsOf(unit.mem, unit.result.Slice) = <<Integer(1), String("a"), Integer(2)>>

\* C22: == and != on two Booleans and on two Nulls reflect value equality.
\* Two Booleans are == exactly when they have the same truth value, and !=
\* exactly when they do not; two Nulls are ==, and are not !=.
C22_ValueEquality ==
    (/\ unit.kind = "infix"
     /\ unit.done
     /\ unit.operator \in {"==", "!="}
     /\ unit.left.Type = unit.right.Type
     /\ unit.left.Type \in {object.BOOLEAN_OBJ, object.NULL_OBJ}) =>
        \E same \in {IF unit.left.Type = object.NULL_OBJ THEN TRUE
                     ELSE unit.left.BoolValue = unit.right.BoolValue} :
           unit.result = Boolean((unit.operator = "==") <=> same)

\* C24: started with no argument, main reaches the prompt of the REPL
\* whether or not the banner file exists: it does not panic, and the prompt
\* is written.  Started with arguments other than run <file>, it writes
\* the usage line and nothing else, exits with code 1 and starts no REPL.
C24_MainDispatch ==
    (pc # "main") =>
        /\ (osArgs = <<>>) =>
              /\ crashed = NoPanic
              /\ \E i \in 1 .. Len(out) : out[i] = PROMPT
              /\ replEnv # NilEnv
        /\ (osArgs # <<>> /\ ~(Len(osArgs) >= 2 /\ osArgs[1] = "run")) =>
              /\ out = <<"Usage: kev run <file>\n">>
              /\ pc = "exit"
              /\ exitCode = 1
              /\ replEnv = NilEnv

\* The nodes of a tree: the node itself and the nodes below it.
RECURSIVE Nodes(_)
Nodes(n) ==
    {n} \cup UNION {IF f \in {"node", "StrValue", "IntValue", "BoolValue", "Operator"}
                    THEN {}
                    ELSE IF f \in {"Statements", "Elements", "Arguments", "Parameters"}
                    THEN UNION {Nodes(n[f][i]) : i \in 1 .. Len(n[f])}
                    ELSE IF f = "Pairs"
                    THEN UNION {Nodes(n[f][i].Key) \cup Nodes(n[f][i].Value)
                                : i \in 1 .. Len(n[f])}
                    ELSE Nodes(n[f])
                    : f \in DOMAIN n}

\* C25: a var statement that fails contributes nothing to the tree: after
\* ParseProgram every element of Program.Statements and of every
\* BlockStatement.Statements is a statement node, never an absent one.
C25_NoAbsentStatement ==
    (unit.kind = "parser" /\ unit.done /\ ~unit.p.l.panicked) =>
        \A block \in Nodes(unit.program) :
           block.node \in {"Program", "BlockStatement"} =>
              \A i \in 1 .. Len(block.Statements) :
                 block.Statements[i].node \in {"VarStatement", "ReturnStatement",
                                               "ExpressionStatement"}

\* C26: a function literal is parsed without an error only if every token
\* of its parameter list is an IDENT: when the error log is empty, every
\* element of FunctionLiteral.Parameters has a name that is the lexeme of
\* an IDENT token (read on its own it is one IDENT token, so it is no
\* integer and no keyword).
C26_ParametersAreIdentifiers ==
    (/\ unit.kind = "parser"
     /\ unit.done
     /\ ~unit.p.l.panicked
     /\ Errors(unit.p) = <<>>) =>
        \A literal \in Nodes(unit.program) :
           literal.node = "FunctionLiteral" =>
              \A i \in 1 .. Len(literal.Parameters) :
              \E name \in {literal.Parameters[i].StrValue} :
                 NextToken(LexerNew(name)).tok = Token(token.IDENT, name)

\* C27: a hash literal with a trailing comma before the closing brace is
\* rejected with a parse error, while {} yields the empty hash and {1: 2}
\* a hash of one pair, both without an error.
C27_HashTrailingComma ==
    (unit.kind = "parser" /\ unit.done) =>
        /\ (unit.words = <<"{1: 2,}">>) => Errors(unit.p) # <<>>
        /\ (unit.words = <<"{}">>) =>
              /\ Errors(unit.p) = <<>>
              /\ unit.program.Statements =
                    <<[node |-> "ExpressionStatement",
                       Expression |-> [node |-> "HashLiteral", Pairs |-> <<>>]]>>
        /\ (unit.words = <<"{1: 2}">>) =>
              /\ Errors(unit.p) = <<>>
              /\ unit.program.Statements =
                    <<[node |-> "ExpressionStatement",
                       Expression |->
                          [node |-> "HashLiteral",
                           Pairs |-> <<[Key |-> [node |-> "IntegerLiteral",
                                                 IntValue |-> 1],
                                        Value |-> [node |-> "IntegerLiteral",
                                                   IntValue |-> 2]]>>]]>>

\* C28: an INT token whose digits denote a number in the signed 64-bit
\* range is parsed into an IntegerLiteral whose value is the base-10 value
\* of the digits, leading zeros included (010 is ten, 08 is eight), and
\* nothing is added to the error log.
C28_DecimalLiterals ==
    (/\ unit.kind = "parser"
     /\ unit.done
     /\ unit.words \in {<<"0">>, <<"7">>, <<"10">>, <<"19">>, <<"00">>, <<"007">>,
                        <<"010">>, <<"08">>, <<"090">>}) =>
        /\ Errors(unit.p) = <<>>
        /\ unit.program.Statements =
              <<[node |-> "ExpressionStatement",
                 Expression |-> [node |-> "IntegerLiteral",
                                 IntValue |-> DigitsValue(unit.words[1], 10, 0)]]>>

\* C28, as the code has it: an INT token is read as strconv.ParseInt reads
\* it with base 0.  A single digit, and a run that does not start with 0,
\* has its base-10 value.  A run of two or more digits that starts with 0 is
\* read in base 8 (010 is eight): when it holds an 8 or a 9 the expression
\* is absent and the log holds could not parse <lexeme> as integer, and
\* otherwise its value is the base-8 value.  Nothing else is added to the
\* error log.
C28_PrefixedLiterals ==
    (/\ unit.kind = "parser"
     /\ unit.done
     /\ Len(unit.words) = 1
     /\ unit.words[1] # ""
     /\ \A i \in 1 .. Len(unit.words[1]) : isDigit(ByteAt(unit.words[1], i - 1))) =>
        \E lit \in {unit.words[1]} :
        \E octal \in {Len(lit) > 1 /\ ByteAt(lit, 0) = "0"} :
           IF octal /\ \E i \in 1 .. Len(lit) : ByteAt(lit, i - 1) \in {"8", "9"}
           THEN /\ Errors(unit.p) = <<"could not parse " \o lit \o " as integer">>
                /\ unit.program.Statements =
                      <<[node |-> "ExpressionStatement", Expression |-> NilNode]>>
           ELSE /\ Errors(unit.p) = <<>>
                /\ unit.program.Statements =
                      <<[node |-> "ExpressionStatement",
                         Expression |->
                            [node |-> "IntegerLiteral",
                             IntValue |-> DigitsValue(lit, IF octal THEN 8 ELSE 10, 0)]]>>

\* 010 was parsed: the literal has the value eight and the log is empty.
C28_Witness ==
    /\ unit.kind = "parser"
    /\ unit.done
    /\ unit.words = <<"010">>
    /\ Errors(unit.p) = <<>>
    /\ unit.program.Statements[1].Expression.IntValue = 8

\* C23: var writes to the innermost environment only.  No call of a
\* Function changes an environment that existed when the call began: the
\* environment the Function captured and every environment outside it are,
\* when the call ends, as they were, whatever var statements its body ran
\* (inside an if-block as well).  In ShadowLine the closure binds x to 15 in
\* its own environment: mk's x stays 5 and the global x stays 1, so the
\* line's value is 15 + 1.
C23_VarWritesInnermost ==
    /\ last.ran => ~last.g.outerWritten
    /\ (last.src = ShadowLine /\ last.ran) =>
          /\ last.evaluated = Integer(16)
          /\ \E global \in DOMAIN heap :
                /\ heap[global].outer = NilEnv
                /\ heap[global].store["x"] = Integer(1)
                /\ \E captured \in DOMAIN heap :
                      /\ heap[captured].outer = global
                      /\ heap[captured].store = ("x" :> Integer(5))
                      /\ \E own \in DOMAIN heap :
                            /\ heap[own].outer = captured
                            /\ heap[own].store = ("x" :> Integer(15))

\* ShadowLine was evaluated in a REPL session: the closure's var ran
\* inside its if-block, and the session's x is still 1.
C23_Witness ==
    /\ last.src = ShadowLine
    /\ last.ran
    /\ last.evaluated = Integer(16)
    /\ replEnv # NilEnv
    /\ Get(heap, replEnv, "x") = [obj |-> Integer(1), ok |-> TRUE]
    /\ Cardinality(last.g.calls) = 2

\* C29: a Function shares the environment it captured, it does not copy
\* it: what is bound or rebound there after the Function was made is what
\* its body sees when it is called, its own name included, so recursion
\* works.  In RecursionLine sum is bound after the literal was evaluated
\* and k is rebound from 1 to 100 after that: sum(2) is 2 + 1 + 100, and
\* the Function bound to sum holds the very environment that binds sum.
C29_SharedEnvironment ==
    (last.src = RecursionLine /\ last.ran) =>
        /\ last.evaluated = Integer(103)
        /\ \E global \in DOMAIN heap :
              /\ "sum" \in DOMAIN heap[global].store
              /\ heap[global].store["sum"].Type = object.FUNCTION_OBJ
              /\ heap[global].store["sum"].Env = global
              /\ heap[global].store["k"] = Integer(100)
        /\ \A c \in last.g.calls : c.outer = c.captured /\ c.captured # NilEnv

\* RecursionLine was evaluated in a REPL session: sum called itself twice,
\* each call in an environment of its own enclosed by the session's.
C29_Witness ==
    /\ last.src = RecursionLine
    /\ last.ran
    /\ last.evaluated = Integer(103)
    /\ replEnv # NilEnv
    /\ Get(heap, replEnv, "sum").obj.Env = replEnv
    /\ Cardinality({e \in DOMAIN heap : heap[e].outer = replEnv}) >= 3

\* C30: the REPL evaluates every line of a session in one environment.
\* A line never changes which environment that is, and every name bound
\* in it stays bound after the next line, whatever that line does.  When a
\* statement of a line gives an Error, the var statements before it have
\* made their bindings and those after it have not: after the line
\* var p = 1; p + true; var q = 2 the session binds p to 1 and does not
\* bind q, and the next line p is answered with 1.
C30_SessionEnvironment ==
    [][(pc = "prompt" /\ pc' = "prompt") =>
          /\ replEnv' = replEnv
          /\ heap'[replEnv].outer = NilEnv
          /\ \A name \in DOMAIN heap[replEnv].store :
                name \in DOMAIN heap'[replEnv].store
          /\ (last'.src = "var p = 1; p + true; var q = 2") =>
                /\ last'.evaluated = Error("type mismatch: INTEGER + BOOLEAN")
                /\ Get(heap', replEnv, "p") = [obj |-> Integer(1), ok |-> TRUE]
                /\ ~Get(heap', replEnv, "q").ok
          /\ (last.src = "var p = 1; p + true; var q = 2" /\ last'.src = "p") =>
                /\ last'.evaluated = Integer(1)
                /\ out' = out \o <<"1\n", PROMPT>>]_vars

\* The line with the Error was the first of a session and p the second:
\* the 1 that p was bound to before the Error was written.
C30_Witness ==
    /\ stdin = <<"var p = 1; p + true; var q = 2", "p">>
    /\ last.evaluated = Integer(1)
    /\ pc = "prompt"
    /\ DOMAIN heap[replEnv].store = {"p"}

====
